---- MODULE Spec2Model ----
(***************************************************************************)
(* Tableau calculus, model generation and unification of the sorted        *)
(* first-order fragment (src/src/logic/base, simple_event_semantics and    *)
(* query_environment).                                                     *)
(*                                                                         *)
(* Representation.                                                         *)
(*  - A term is <<kind, sort, name>>, kind being the Python class.         *)
(*  - A formula is a tuple whose first element is the Python class:        *)
(*      <<"atom", pred, args>>  AppliedPredicate (LogicalConstant: no args)*)
(*      <<"eq", l, r>>          Eq                                         *)
(*      <<"and", l, r>>         And                                        *)
(*      <<"not", f>>            Not                                        *)
(*      <<"or", l, r>>          Or      (subclass of Not)                  *)
(*      <<"implies", p, q>>     Implies (subclass of Or)                   *)
(*      <<"forall", v, body>>   Forall;  body is partial_formula(v)        *)
(*      <<"exists", v, body>>   Exists  (subclass of Not)                  *)
(*      <<"forallF", v, g, b>>  ForallF; g, b are the partials at v        *)
(*      <<"existsF", v, g, b>>  ExistsF (subclass of Not)                  *)
(*    The bound variable v of a quantifier built without an explicit       *)
(*    variable is Variable(sort) with a name from the Variable._id         *)
(*    counter, so two quantifiers built independently differ in v and two  *)
(*    equal values stand for one object (or a copy of it).                 *)
(*  - The canonical string of a formula (Formula.__str__, the hash key) is *)
(*    determined by, and determines, the value: Python set and dict        *)
(*    membership is value equality here, Python list membership            *)
(*    (x is e or x == e) is InList.                                        *)
(*  - A tableau node is the sequence of the layers of its branch, its own  *)
(*    layer first: Tail(t) is t.parent, <<>> is None.                      *)
(***************************************************************************)
EXTENDS Integers, Sequences, FiniteSets, TLC

VARIABLES tableau, constructed, constant_id, call, inference_agent

vars == <<tableau, constructed, constant_id, call, inference_agent>>

\* no InferenceAgent has been constructed
NoAgent == [pc |-> "none"]

----------------------------------------------------------------------------
(* Terms: src/src/logic/base/syntax.py                                     *)

Constant(sort, name) == <<"Constant", sort, name>>

EConstant(sort, name) == <<"EConstant", sort, name>>

Variable(sort, name) == <<"Variable", sort, name>>

\* Constant(sort) without a name: "_C{Constant._id}"
AutoConstant(sort, id) == Constant(sort, "_C" \o ToString(id))

TermKind(t) == t[1]

TermSort(t) == t[2]

\* Constant._get_str / EConstant._get_str: "sort(name)"; Variable._get_str: name
TermStr(t) == IF TermKind(t) = "Variable" THEN <<t[3]>> ELSE <<t[2], t[3]>>

\* Term.__eq__
TermEq(a, b) == TermKind(b) = TermKind(a) /\ TermSort(a) = TermSort(b) /\ TermStr(a) = TermStr(b)

IsTerm(x) == x[1] \in {"Constant", "EConstant", "Variable"}

----------------------------------------------------------------------------
(* Formulas: src/src/logic/base/syntax.py                                  *)

AppliedPredicate(pred, args) == <<"atom", pred, args>>

Eq(l, r) == <<"eq", l, r>>

And(l, r) == <<"and", l, r>>

Not(f) == <<"not", f>>

Or(l, r) == <<"or", l, r>>

Implies(pre, post) == <<"implies", pre, post>>

Forall(v, body) == <<"forall", v, body>>

Exists(v, body) == <<"exists", v, body>>

ForallF(v, unfocused, focused) == <<"forallF", v, unfocused, focused>>

ExistsF(v, unfocused, focused) == <<"existsF", v, unfocused, focused>>

True_ == AppliedPredicate("T", <<>>)

False_ == AppliedPredicate("F", <<>>)

\* isinstance(f, AppliedPredicate)
IsAppliedPredicate(f) == f[1] \in {"atom", "eq"}

\* isinstance(f, Eq)
IsEq(f) == f[1] = "eq"

\* isinstance(f, And)
IsAnd(f) == f[1] = "and"

\* isinstance(f, Not): Or, Implies, Exists and ExistsF are subclasses of Not
IsNot(f) == f[1] \in {"not", "or", "implies", "exists", "existsF"}

\* isinstance(f, Forall)
IsForall(f) == f[1] = "forall"

\* isinstance(f, ForallF)
IsForallF(f) == f[1] = "forallF"

\* the predicate of an applied predicate, as (name, arity)
PredicateOf(f) == IF IsEq(f) THEN <<"eq", 2>> ELSE <<f[2], Len(f[3])>>

\* AppliedPredicate.args
ArgsOf(f) == IF IsEq(f) THEN <<f[2], f[3]>> ELSE f[3]

\* Not.formula, as each subclass passes it to Not.__init__
Inner(f) ==
    CASE f[1] = "not" -> f[2]
      [] f[1] = "or" -> And(Not(f[2]), Not(f[3]))
      [] f[1] = "implies" -> And(Not(Not(f[2])), Not(f[3]))
      [] f[1] = "exists" -> Forall(f[2], Not(f[3]))
      [] f[1] = "existsF" -> ForallF(f[2], f[3], Not(f[4]))

\* QuantifiedFormula.variable / FocusQuantifiedFormula.variable
VariableOf(f) == f[2]

\* QuantifiedFormula.sort: the sort of the bound variable
SortOf(f) == TermSort(f[2])

ReplaceTerm(t, v, by) == IF t = v THEN by ELSE t

RECURSIVE ReplaceArgs(_, _, _)
ReplaceArgs(args, v, by) ==
    IF args = <<>> THEN <<>>
    ELSE <<ReplaceTerm(Head(args), v, by)>> \o ReplaceArgs(Tail(args), v, by)

\* the formula a partial formula returns for a term: every occurrence of the
\* bound variable v replaced
RECURSIVE Substitute(_, _, _)
Substitute(f, v, by) ==
    CASE f[1] = "atom" -> AppliedPredicate(f[2], ReplaceArgs(f[3], v, by))
      [] f[1] = "eq" -> Eq(ReplaceTerm(f[2], v, by), ReplaceTerm(f[3], v, by))
      [] f[1] \in {"and", "or", "implies"} -> <<f[1], Substitute(f[2], v, by), Substitute(f[3], v, by)>>
      [] f[1] = "not" -> Not(Substitute(f[2], v, by))
      [] f[1] \in {"forall", "exists"} -> <<f[1], f[2], Substitute(f[3], v, by)>>
      [] f[1] \in {"forallF", "existsF"} -> <<f[1], f[2], Substitute(f[3], v, by), Substitute(f[4], v, by)>>

\* Forall.partial_formula(term)
PartialFormula(f, term) == Substitute(f[3], f[2], term)

\* ForallF.unfocused_partial(term)
UnfocusedPartial(f, term) == Substitute(f[3], f[2], term)

\* ForallF.focused_partial(term)
FocusedPartial(f, term) == Substitute(f[4], f[2], term)

\* x == y of two formulas: the __eq__ of the class of x
RECURSIVE FormulaEq(_, _)
FormulaEq(a, b) ==
    CASE IsAppliedPredicate(a) ->
            /\ IsAppliedPredicate(b)
            /\ PredicateOf(a) = PredicateOf(b)
            /\ \A i \in 1..Len(ArgsOf(a)) : TermEq(ArgsOf(a)[i], ArgsOf(b)[i])
      [] IsAnd(a) -> IsAnd(b) /\ FormulaEq(a[2], b[2]) /\ FormulaEq(a[3], b[3])
      [] IsNot(a) -> IsNot(b) /\ FormulaEq(Inner(a), Inner(b))
      [] IsForall(a) ->
            /\ IsForall(b)
            /\ SortOf(a) = SortOf(b)
            /\ FormulaEq(PartialFormula(a, VariableOf(a)), PartialFormula(b, VariableOf(a)))
      [] IsForallF(a) ->
            /\ IsForallF(b)
            /\ SortOf(a) = SortOf(b)
            /\ FormulaEq(FocusedPartial(a, VariableOf(a)), FocusedPartial(b, VariableOf(a)))
            /\ FormulaEq(UnfocusedPartial(a, VariableOf(a)), FocusedPartial(b, VariableOf(a)))
      [] OTHER -> FALSE

\* ", ".join(str(x) for x in args), as the list of its parts
RECURSIVE ArgsStr(_)
ArgsStr(args) ==
    IF args = <<>> THEN <<>>
    ELSE IF Len(args) = 1 THEN TermStr(args[1])
    ELSE TermStr(args[1]) \o <<", ">> \o ArgsStr(Tail(args))

\* Formula._get_str of every class, as the list of the parts of the string
RECURSIVE FormulaStr(_)
FormulaStr(f) ==
    CASE f[1] = "eq" -> TermStr(f[2]) \o <<" = ">> \o TermStr(f[3])
      [] f[1] = "atom" ->
            IF Len(f[3]) = 0 THEN <<f[2]>> ELSE <<f[2], "(">> \o ArgsStr(f[3]) \o <<")">>
      [] f[1] = "and" -> <<"(">> \o FormulaStr(f[2]) \o <<" & ">> \o FormulaStr(f[3]) \o <<")">>
      [] f[1] = "not" -> <<"-">> \o FormulaStr(f[2])
      [] f[1] = "or" -> <<"(">> \o FormulaStr(f[2]) \o <<" | ">> \o FormulaStr(f[3]) \o <<")">>
      [] f[1] = "implies" ->
            <<"(">> \o FormulaStr(f[2]) \o <<" -> ">> \o FormulaStr(f[3]) \o <<")">>
      [] f[1] = "forall" -> <<"A_">> \o TermStr(f[2]) \o <<".">> \o FormulaStr(f[3])
      [] f[1] = "exists" -> <<"E_">> \o TermStr(f[2]) \o <<".">> \o FormulaStr(f[3])
      [] f[1] = "forallF" ->
            <<"A_">> \o TermStr(f[2]) \o <<":">> \o FormulaStr(f[3]) \o <<".">>
                \o FormulaStr(f[4])
      [] f[1] = "existsF" ->
            <<"E_">> \o TermStr(f[2]) \o <<":">> \o FormulaStr(f[3]) \o <<".">>
                \o FormulaStr(f[4])

\* Formula.__hash__: hash(str(self)), one hash per string
FormulaHash(f) == FormulaStr(f)

\* len({a, b}) for two formula objects: the second is dropped when its hash
\* is the hash of the first and the first == the second
SetLen(a, b) == IF FormulaHash(a) = FormulaHash(b) /\ FormulaEq(a, b) THEN 1 ELSE 2

\* x in <list>: x is e or x == e for some element e
InList(x, list) == \E e \in list : x = e \/ FormulaEq(x, e)

----------------------------------------------------------------------------
(* Substitutions: src/src/logic/base/syntax.py.  A substitution is the     *)
(* sequence of the (from, to) items of inner_dict, in insertion order.     *)

EmptySubstitution == <<>>

HasKey(sub, term) == \E i \in 1..Len(sub) : sub[i][1] = term

Lookup(sub, term) == sub[CHOOSE i \in 1..Len(sub) : sub[i][1] = term][2]

\* Substitution.apply: inner_dict.get(term) or term
SubstitutionApply(sub, term) == IF HasKey(sub, term) THEN Lookup(sub, term) ELSE term

\* Substitution._update: only the values of self are rewritten by other
RECURSIVE SubstitutionUpdate(_, _)
SubstitutionUpdate(self, other) ==
    IF self = <<>> THEN <<>>
    ELSE <<<<Head(self)[1], SubstitutionApply(other, Head(self)[2])>>>> \o
         SubstitutionUpdate(Tail(self), other)

\* Substitution._unify: the substitution returned, or the exception raised
Unify(term1, term2) ==
    IF TermEq(term1, term2)
    THEN [raised |-> "None", sub |-> EmptySubstitution]
    ELSE IF ~(TermKind(term1) = "Constant" /\ TermKind(term2) = "Constant")
    THEN [raised |-> "AssertionError", sub |-> EmptySubstitution]
    ELSE IF TermKind(term1) \in {"Variable", "EConstant"}
    THEN [raised |-> "None", sub |-> <<<<term1, term2>>>>]
    ELSE IF TermKind(term2) \in {"Variable", "EConstant"}
    THEN [raised |-> "None", sub |-> <<<<term2, term1>>>>]
    ELSE [raised |-> "NotImplementedError", sub |-> EmptySubstitution]

\* Substitution.most_general_unifier over the list of equalities from index i
\* on: none is TRUE when it returns None
RECURSIVE MguLoop(_, _, _)
RECURSIVE MguUnified(_, _, _, _)
MguLoop(sub, equalities, i) ==
    IF i > Len(equalities) THEN [none |-> FALSE, sub |-> sub]
    ELSE MguUnified(sub, equalities, i,
                    Unify(SubstitutionApply(sub, equalities[i][2]),
                          SubstitutionApply(sub, equalities[i][3])))

\* the try block of most_general_unifier: both exceptions give None
MguUnified(sub, equalities, i, new_sub) ==
    IF new_sub.raised # "None" THEN [none |-> TRUE, sub |-> EmptySubstitution]
    ELSE MguLoop(SubstitutionUpdate(sub, new_sub.sub), equalities, i + 1)

most_general_unifier(equalities) == MguLoop(EmptySubstitution, equalities, 1)

RECURSIVE MergeItems(_, _, _)
RECURSIVE MergeUnified(_, _, _, _)

\* the loop of Substitution.merge over the items of merged_rest from index i
MergeItems(output, merged_rest, i) ==
    IF i > Len(merged_rest) THEN [raised |-> "None", none |-> FALSE, sub |-> output]
    ELSE IF HasKey(output, merged_rest[i][1])
    THEN MergeUnified(output, merged_rest, i, Unify(Lookup(output, merged_rest[i][1]), merged_rest[i][2]))
    ELSE MergeItems(Append(output, merged_rest[i]), merged_rest, i + 1)

\* the try block of Substitution.merge: an AssertionError gives None, any
\* other exception leaves merge
MergeUnified(output, merged_rest, i, new_sub) ==
    CASE new_sub.raised = "AssertionError" ->
            [raised |-> "None", none |-> TRUE, sub |-> EmptySubstitution]
      [] new_sub.raised = "NotImplementedError" ->
            [raised |-> "NotImplementedError", none |-> FALSE, sub |-> EmptySubstitution]
      [] OTHER -> MergeItems(SubstitutionUpdate(output, new_sub.sub), merged_rest, i + 1)

\* the bindings of merged_rest merged into a copy of first
MergeOnto(first, merged_rest) ==
    IF merged_rest.raised # "None" \/ merged_rest.none
    THEN merged_rest
    ELSE MergeItems(first, merged_rest.sub, 1)

\* Substitution.merge(*substitutions), at least one substitution
RECURSIVE SubstitutionMerge(_)
SubstitutionMerge(substitutions) ==
    IF Len(substitutions) = 1
    THEN [raised |-> "None", none |-> FALSE, sub |-> substitutions[1]]
    ELSE MergeOnto(Head(substitutions), SubstitutionMerge(Tail(substitutions)))

----------------------------------------------------------------------------
(* Tableau nodes: src/src/logic/base/tableau.py                            *)

\* no node (None)
NoTableau == <<>>

\* Tableau(formulas, entities, parent, substitution=substitution)
TableauWith(formulas, entities, parent, substitution) ==
    <<[formulas |-> formulas, entities |-> entities, substitution |-> substitution]>> \o parent

\* Tableau(formulas, entities, parent): __post_init__ copies the substitution
\* of the parent, or starts an empty one
Tableau(formulas, entities, parent) ==
    TableauWith(formulas, entities, parent,
                IF parent = NoTableau THEN EmptySubstitution ELSE parent[1].substitution)

Parent(t) == Tail(t)

Formulas(t) == t[1].formulas

Entities(t) == t[1].entities

\* Tableau.branch_formulas, as a set
BranchFormulas(t) == UNION {t[i].formulas : i \in 1..Len(t)}

\* Tableau.branch_entities, as a set
BranchEntities(t) == UNION {t[i].entities : i \in 1..Len(t)}

\* is_literal
IsLiteral(f) == IF IsNot(f) THEN IsAppliedPredicate(Inner(f)) ELSE IsAppliedPredicate(f)

\* a variant of branch_literals that reads the node alone, under which the
\* property of C7 fails
NodeAtomOccurrences(t) ==
    {o \in {1} \X Formulas(t) : IsAppliedPredicate(o[2])}

\* Tableau.branch_literals restricted to atoms, one occurrence per node that
\* holds the atom: the pairs (depth, atom)
BranchAtomOccurrences(t) ==
    {o \in (1..Len(t)) \X BranchFormulas(t) : o[2] \in t[o[1]].formulas /\ IsAppliedPredicate(o[2])}

\* a variant of get_unique_tableau that forgets the parent of the leaf, under
\* which the property of C4 fails
DetachedUniqueTableau(self, leaf) ==
    Tableau(Formulas(leaf) \ BranchFormulas(self), Entities(leaf) \ BranchEntities(self), NoTableau)

\* Tableau.get_unique_tableau: the leaf without what the branch of self holds
GetUniqueTableau(self, leaf) ==
    Tableau(Formulas(leaf) \ BranchFormulas(self), Entities(leaf) \ BranchEntities(self), Parent(leaf))

\* a variant that keeps what the branch of the parent already holds
KeepBranchFormulas(parent, merged_tableau) == merged_tableau

\* the end of Tableau.merge: with a parent, only what is new to its branch
WithParent(parent, merged_tableau) ==
    IF parent # NoTableau THEN GetUniqueTableau(parent, merged_tableau) ELSE merged_tableau

\* Tableau.merge(*tableaus, parent=parent): the node returned, or the
\* exception raised by Substitution.merge; a failed merge of the
\* substitutions adds the falsity literal
MergedTableau(formulas, entities, parent, merged_substitution) ==
    IF merged_substitution.raised # "None"
    THEN [raised |-> merged_substitution.raised, node |-> NoTableau]
    ELSE [raised |-> "None",
          node |-> WithParent(parent,
                              IF merged_substitution.none
                              THEN TableauWith(formulas \cup {False_}, entities, parent,
                                               EmptySubstitution)
                              ELSE TableauWith(formulas, entities, parent,
                                               merged_substitution.sub))]

TableauMerge(tableaus, parent) ==
    IF Len(tableaus) = 0
    THEN [raised |-> "None", node |-> Tableau({}, {}, parent)]
    ELSE MergedTableau(UNION {Formulas(tableaus[i]) : i \in 1..Len(tableaus)},
                       UNION {Entities(tableaus[i]) : i \in 1..Len(tableaus)},
                       parent,
                       SubstitutionMerge([i \in 1..Len(tableaus) |-> tableaus[i][1].substitution]))

\* Tableau.merge where the substitutions are copies of one substitution, as
\* in every merge the calculus makes: it returns a node
Merge(tableaus, parent) == TableauMerge(tableaus, parent).node

----------------------------------------------------------------------------
(* Helpers for Python iteration                                            *)

\* the elements of a set as a list, in one fixed order
RECURSIVE SetToSeq(_)
SetToSeq(S) ==
    IF S = {} THEN <<>>
    ELSE LET x == CHOOSE y \in S : TRUE IN <<x>> \o SetToSeq(S \ {x})

\* itertools.product(*sets): one element of every set of the list
Product(sets) ==
    {c \in [1..Len(sets) -> UNION {sets[i] : i \in 1..Len(sets)}] :
        \A i \in 1..Len(sets) : c[i] \in sets[i]}

\* filter(operator.truth, ...) over optional nodes: None is dropped
RECURSIVE DropNone(_)
DropNone(list) ==
    IF list = <<>> THEN <<>>
    ELSE IF Head(list) = NoTableau THEN DropNone(Tail(list))
    ELSE <<Head(list)>> \o DropNone(Tail(list))

----------------------------------------------------------------------------
(* Branch consistency: src/src/logic/base/calculus.py                      *)

\* formula.formula in branch_formulas: a plain Not holds the negated object
\* itself, the subclasses of Not build their inner formula
InnerInBranch(formula, branch_formulas) ==
    IF formula[1] = "not"
    THEN InList(Inner(formula), branch_formulas)
    ELSE \E e \in branch_formulas : FormulaEq(Inner(formula), e)

\* a variant that never reports an equality violation, under which the
\* property of C6 fails
NoEqualityViolation(formula) == FALSE

\* the equality violations of a formula of the node
EqualityViolation(formula) ==
    \/ IsEq(formula) /\ ~TermEq(formula[2], formula[3])
    \/ /\ IsNot(formula)
       /\ IsEq(Inner(formula))
       /\ TermEq(Inner(formula)[2], Inner(formula)[3])

is_branch_consistent(t) ==
    LET branch_formulas == BranchFormulas(t)
    IN /\ ~InList(False_, branch_formulas)
       /\ ~\E formula \in branch_formulas : IsNot(formula) /\ Inner(formula) = True_
       /\ ~\E formula \in branch_formulas :
              IsNot(formula) /\ InnerInBranch(formula, branch_formulas)
       /\ ~\E formula \in Formulas(t) : EqualityViolation(formula)

----------------------------------------------------------------------------
(* Non-branching rules: src/src/logic/base/calculus.py                     *)

\* a rule's return value: a child holding the new formulas, or None
ChildOrNone(output_formulas, t) ==
    IF output_formulas # {} THEN Tableau(output_formulas, {}, t) ELSE NoTableau

\* a variant that resolves the conjunctions of the whole branch
BranchAndElim(t) ==
    LET conjunctions == {f \in BranchFormulas(t) : IsAnd(f)}
        conjuncts == {conj[2] : conj \in conjunctions} \cup {conj[3] : conj \in conjunctions}
    IN ChildOrNone(conjuncts \ BranchFormulas(t), t)

\* a variant that resolves the conjunctions of the whole branch again
RepeatingAndElim(t) ==
    LET conjunctions == {f \in BranchFormulas(t) : IsAnd(f)}
        conjuncts == {conj[2] : conj \in conjunctions} \cup {conj[3] : conj \in conjunctions}
    IN ChildOrNone(conjuncts, t)

try_and_elim(t) ==
    LET conjunctions == {f \in Formulas(t) : IsAnd(f)}
        conjuncts == {conj[2] : conj \in conjunctions} \cup {conj[3] : conj \in conjunctions}
    IN ChildOrNone(conjuncts \ BranchFormulas(t), t)

try_double_negation(t) ==
    LET double_negations == {f \in Formulas(t) : IsNot(f) /\ IsNot(Inner(f))}
    IN ChildOrNone({Inner(Inner(f)) : f \in double_negations} \ BranchFormulas(t), t)

\* a variant that instantiates an axiom with the entities of every sort
AnySortForallElim(t) ==
    LET axioms == {f \in BranchFormulas(t) : IsForall(f)}
        instances ==
            UNION {{PartialFormula(axiom, term) : term \in BranchEntities(t)} : axiom \in axioms}
    IN ChildOrNone(instances \ BranchFormulas(t), t)

try_forall_elim(t) ==
    LET axioms == {f \in BranchFormulas(t) : IsForall(f)}
        instances ==
            UNION {{PartialFormula(axiom, term) :
                        term \in {e \in BranchEntities(t) : TermSort(e) = SortOf(axiom)}} :
                   axiom \in axioms}
    IN ChildOrNone(instances \ BranchFormulas(t), t)

\* the guard is looked up among the branch entities
try_focused_forall_elim(t) ==
    LET axioms == {f \in BranchFormulas(t) : IsForallF(f)}
        applicable(axiom) ==
            {e \in BranchEntities(t) :
                /\ TermSort(e) = SortOf(axiom)
                /\ InList(UnfocusedPartial(axiom, e), BranchEntities(t))}
        instances ==
            UNION {{FocusedPartial(axiom, term) : term \in applicable(axiom)} : axiom \in axioms}
    IN ChildOrNone(instances \ BranchFormulas(t), t)

\* the non-empty outputs of the four rules, in rule order
NonBranchingOutputs(t) ==
    DropNone(<<try_and_elim(t), try_double_negation(t), try_forall_elim(t),
               try_focused_forall_elim(t)>>)

\* the while loop of try_non_branching_rules
RECURSIVE NonBranchingLoop(_, _, _)
RECURSIVE Reapply(_, _)

NonBranchingLoop(t, output, outputs) ==
    IF outputs = <<>> THEN output
    ELSE Reapply(t, Merge(IF output # NoTableau THEN Append(outputs, output) ELSE outputs, t))

\* the rules applied again to the merged output
Reapply(t, output) == NonBranchingLoop(t, output, NonBranchingOutputs(output))

try_non_branching_rules(t) == NonBranchingLoop(t, NoTableau, NonBranchingOutputs(t))

\* a variant that leaves double negations in place
KeepDoubleNegations(formula) == formula

remove_double_negations(formula) ==
    IF IsNot(formula) /\ IsNot(Inner(formula)) THEN Inner(Inner(formula)) ELSE formula

----------------------------------------------------------------------------
(* Branching rules: src/src/logic/base/calculus.py.  A rule's result is    *)
(* the set of branches returned (empty for None), the exception raised and *)
(* the value of Constant._id afterwards.                                   *)

\* the attribute sort exists on Exists and ExistsF, not on a plain Not
HasSort(formula) == formula[1] \in {"exists", "existsF", "forall", "forallF"}

try_or_elim(t) ==
    LET disjunctions == {f \in Formulas(t) : IsNot(f) /\ IsAnd(Inner(f))}
        disjuncts(f) == <<remove_double_negations(Not(Inner(f)[2])),
                          remove_double_negations(Not(Inner(f)[3]))>>
        choices == [disjunctions -> {1, 2}]
        branches == {{disjuncts(f)[c[f]] : f \in disjunctions} \ BranchFormulas(t) : c \in choices}
    IN {Tableau(branch, {}, t) : branch \in {b \in branches : b # {}}}

\* the sub-branches of one existential of try_exists_elim
ExistsSubBranches(t, quantified_formula, witness) ==
    LET inner_formula == Inner(quantified_formula)
        applicable_entities ==
            {e \in BranchEntities(t) : TermSort(e) = SortOf(inner_formula)}
    IN {Tableau({remove_double_negations(Not(PartialFormula(inner_formula, e)))}, {}, NoTableau) :
            e \in applicable_entities}
       \cup {Tableau({remove_double_negations(Not(PartialFormula(inner_formula, witness)))},
                     {witness}, NoTableau)}

\* the sub-branches of one focused existential of try_focused_exists_elim
FocusedExistsSubBranches(t, quantified_formula, witness) ==
    LET inner_formula == Inner(quantified_formula)
        applicable_entities ==
            {e \in BranchEntities(t) :
                /\ TermSort(e) = SortOf(inner_formula)
                /\ InList(UnfocusedPartial(inner_formula, e), BranchFormulas(t))}
    IN {Tableau({remove_double_negations(Not(FocusedPartial(inner_formula, e)))}, {}, NoTableau) :
            e \in applicable_entities}
       \cup {Tableau({remove_double_negations(UnfocusedPartial(inner_formula, witness)),
                      remove_double_negations(Not(FocusedPartial(inner_formula, witness)))},
                     {witness}, NoTableau)}

\* the loop over the quantified formulas of an exists rule: one witness is
\* created for each, and reading the sort of a plain Not raises
RECURSIVE QuantifierLoop(_, _, _, _, _)
QuantifierLoop(t, quantified, focused, all_sub_branches, id) ==
    IF quantified = <<>>
    THEN [raised |-> "None", subs |-> all_sub_branches, id |-> id]
    ELSE IF ~HasSort(Head(quantified))
    THEN [raised |-> "AttributeError", subs |-> <<>>, id |-> id]
    ELSE QuantifierLoop(t, Tail(quantified), focused,
                        Append(all_sub_branches,
                               IF focused
                               THEN FocusedExistsSubBranches(
                                        t, Head(quantified),
                                        AutoConstant(SortOf(Head(quantified)), id))
                               ELSE ExistsSubBranches(
                                        t, Head(quantified),
                                        AutoConstant(SortOf(Head(quantified)), id))),
                        id + 1)

\* the cartesian product of the sub-branches, merged under the node
MergedProduct(all_sub_branches, t) ==
    IF all_sub_branches = <<>> THEN {}
    ELSE {Merge(ts, t) : ts \in Product(all_sub_branches)}

\* the output branches of an exists rule after its loop
ExistsOutput(t, loop) ==
    [raised |-> loop.raised,
     out |-> IF loop.raised = "None" THEN MergedProduct(loop.subs, t) ELSE {},
     id |-> loop.id]

try_exists_elim(t, id) ==
    ExistsOutput(t, QuantifierLoop(
                        t, SetToSeq({f \in Formulas(t) : IsNot(f) /\ IsForall(Inner(f))}),
                        FALSE, <<>>, id))

try_focused_exists_elim(t, id) ==
    ExistsOutput(t, QuantifierLoop(
                        t, SetToSeq({f \in Formulas(t) : IsNot(f) /\ IsForallF(Inner(f))}),
                        TRUE, <<>>, id))

\* the non-empty outputs of a list of branch sets
RECURSIVE DropEmpty(_)
DropEmpty(list) ==
    IF list = <<>> THEN <<>>
    ELSE IF Head(list) = {} THEN DropEmpty(Tail(list))
    ELSE <<Head(list)>> \o DropEmpty(Tail(list))

RECURSIVE try_branching_rules(_, _)
RECURSIVE NextLevelLoop(_, _, _, _)
RECURSIVE NextLevel(_, _, _, _)
RECURSIVE AfterExists(_, _)
RECURSIVE AfterFocusedExists(_, _, _)
RECURSIVE BranchProduct(_, _, _)

\* one round of the loop of try_branching_rules: the branch is merged with
\* everything the recursion returned for it
NextLevel(t, next_level, output, maximal) ==
    IF maximal.raised # "None" THEN [raised |-> maximal.raised, out |-> {}, id |-> maximal.id]
    ELSE NextLevelLoop(t, Tail(next_level),
                       output \cup {IF maximal.out # {}
                                    THEN Merge(<<Head(next_level)>> \o SetToSeq(maximal.out), t)
                                    ELSE Head(next_level)},
                       maximal.id)

\* the loop of try_branching_rules over the merged branches of the next level
NextLevelLoop(t, next_level, output, id) ==
    IF next_level = <<>> THEN [raised |-> "None", out |-> output, id |-> id]
    ELSE NextLevel(t, next_level, output, try_branching_rules(Head(next_level), id))

\* the product of the outputs of the rules, merged under the node
BranchProduct(t, outputs, id) ==
    IF outputs = <<>> THEN [raised |-> "None", out |-> {}, id |-> id]
    ELSE NextLevelLoop(t, SetToSeq({Merge(ts, t) : ts \in Product(outputs)}), {}, id)

AfterFocusedExists(t, exists_out, focused_) ==
    IF focused_.raised # "None"
    THEN [raised |-> focused_.raised, out |-> {}, id |-> focused_.id]
    ELSE BranchProduct(t, DropEmpty(<<try_or_elim(t), exists_out, focused_.out>>), focused_.id)

AfterExists(t, exists_) ==
    IF exists_.raised # "None"
    THEN [raised |-> exists_.raised, out |-> {}, id |-> exists_.id]
    ELSE AfterFocusedExists(t, exists_.out, try_focused_exists_elim(t, exists_.id))

\* the three rules are called in the order or, exists, focused exists; or
\* creates no constant
try_branching_rules(t, id) == AfterExists(t, try_exists_elim(t, id))

----------------------------------------------------------------------------
(* Axioms: src/src/logic/simple_event_semantics/syntax.py and              *)
(* src/src/query_environment/environment.py.  An axiom maps a node to a    *)
(* node or to None.                                                        *)

\* some event is the first argument of two occurrences of the predicate on
\* the branch
SharedEvent(t, pred) ==
    LET occurrences == {o \in BranchAtomOccurrences(t) : PredicateOf(o[2]) = <<pred, 2>>}
    IN \E o1, o2 \in occurrences : o1 # o2 /\ TermEq(ArgsOf(o1[2])[1], ArgsOf(o2[2])[1])

\* a variant of the axiom that accepts every branch, under which the
\* property of C3 fails
AnyAgentEvents(t) == t

single_agent_events(t) == IF SharedEvent(t, "agent") THEN Tableau({False_}, {}, t) ELSE t

single_type_events(t) == IF SharedEvent(t, "type") THEN Tableau({False_}, {}, t) ELSE t

\* AxiomUtils.only_one_kind_per_event(pred): the equalities between the
\* arguments two atoms of pred give one event, or None when the branch has
\* them all
only_one_kind_per_event(pred, t) ==
    LET atoms == {o[2] : o \in {o \in BranchAtomOccurrences(t) : PredicateOf(o[2]) = <<pred, 2>>}}
        f_equalities ==
            {Eq(ArgsOf(a)[2], ArgsOf(b)[2]) :
                <<a, b>> \in {p \in atoms \X atoms :
                                 /\ ArgsOf(p[1])[1] = ArgsOf(p[2])[1]
                                 /\ ~TermEq(ArgsOf(p[1])[2], ArgsOf(p[2])[2])}}
        output == GetUniqueTableau(t, Tableau(f_equalities, {}, t))
    IN IF Formulas(output) # {} THEN output ELSE NoTableau

\* an axiom of a caller's own: the event e1 has the agent bob or the type eat
agent_or_type(t) ==
    Tableau({Or(AppliedPredicate("agent", <<Constant("Event", "e1"), Constant("agent", "bob")>>),
                AppliedPredicate("type", <<Constant("Event", "e1"), Constant("type", "eat")>>))},
            {}, t)

\* the call axiom(tableau) of one axiom of the list
ApplyAxiom(axiom, t) ==
    CASE axiom = "single_agent_events" -> single_agent_events(t)
      [] axiom = "agent_or_type" -> agent_or_type(t)
      [] axiom = "single_type_events" -> single_type_events(t)
      [] axiom = "axiom_only_one_subject" -> only_one_kind_per_event("subject", t)

RECURSIVE ApplyAxioms(_, _)
ApplyAxioms(axioms, t) ==
    IF axioms = <<>> THEN <<>>
    ELSE <<ApplyAxiom(Head(axioms), t)>> \o ApplyAxioms(Tail(axioms), t)

----------------------------------------------------------------------------
(* Model generation: src/src/logic/base/calculus.py                        *)

RECURSIVE generate_models(_, _, _)
RECURSIVE BranchLoop(_, _, _, _)
RECURSIVE Expanded(_, _, _, _)
RECURSIVE Branched(_, _, _)
RECURSIVE WithAxioms(_, _, _, _, _)

\* lines 40 to 44: the models of a branch, or the branch when it has none
Expanded(branches, axioms, models, outputs) ==
    IF outputs.raised # "None"
    THEN [raised |-> outputs.raised, models |-> models, id |-> outputs.id]
    ELSE BranchLoop(Tail(branches), axioms,
                    models \o (IF outputs.models # <<>> THEN outputs.models
                               ELSE <<Head(branches)>>),
                    outputs.id)

\* lines 38 to 44: the loop over the consistent branches
BranchLoop(branches, axioms, models, id) ==
    IF branches = <<>> THEN [raised |-> "None", models |-> models, id |-> id]
    ELSE Expanded(branches, axioms, models, generate_models(Head(branches), axioms, id))

\* lines 30 to 45: without branches the node is yielded if it is consistent
Branched(maximal_non_branching, axioms, branches) ==
    IF branches.raised # "None"
    THEN [raised |-> branches.raised, models |-> <<>>, id |-> branches.id]
    ELSE IF branches.out = {}
    THEN [raised |-> "None",
          models |-> IF is_branch_consistent(maximal_non_branching)
                     THEN <<maximal_non_branching>>
                     ELSE <<>>,
          id |-> branches.id]
    ELSE BranchLoop(SetToSeq({b \in branches.out : is_branch_consistent(b)}),
                    axioms, <<>>, branches.id)

\* lines 26 to 30: the outputs of the axioms are merged onto the node; an
\* axiom that returned None makes Tableau.merge raise
WithAxioms(t, axioms, id, maximal_non_branching, axiom_outputs) ==
    IF \E i \in 1..Len(axiom_outputs) : axiom_outputs[i] = NoTableau
    THEN [raised |-> "AttributeError", models |-> <<>>, id |-> id]
    ELSE Branched(Merge(<<maximal_non_branching>> \o axiom_outputs, t), axioms,
                  try_branching_rules(Merge(<<maximal_non_branching>> \o axiom_outputs, t), id))

\* lines 18 to 24: the result of try_non_branching_rules is overwritten by
\* the input node, which is merged with itself under itself (a node is
\* always true)
MaximalNonBranching(t, saturated) == Merge(<<t, t>>, t)

\* the models yielded in order, the exception that ended the generator and
\* the value of Constant._id afterwards
generate_models(t, axioms, id) ==
    WithAxioms(t, axioms, id, MaximalNonBranching(t, try_non_branching_rules(t)),
               ApplyAxioms(axioms, MaximalNonBranching(t, try_non_branching_rules(t))))

\* check_axioms_consistent of the axiom tests: the axioms of get_axioms()
\* applied in turn, then the consistency of the result
check_axioms_consistent(t) == is_branch_consistent(single_type_events(single_agent_events(t)))

----------------------------------------------------------------------------
(* The individuals, formulas and nodes the callers build                   *)

MaxNodes == 2

MaxEqualities == 2

MaxMerged == 2

john == Constant("agent", "john")

bob == Constant("agent", "bob")

eat == Constant("type", "eat")

run == Constant("type", "run")

e1 == Constant("Event", "e1")

\* an event of the query environment, whose event sort is named "event"
e2 == Constant("event", "e2")

\* Variable(sort) without a name: "_V{Variable._id}"
AutoVariable(sort, id) == Variable(sort, "_V" \o ToString(id))

\* Concepts.agent(event, agent)
Agent(event, agent) == AppliedPredicate("agent", <<event, agent>>)

\* Concepts.type_(event, type)
Type_(event, type) == AppliedPredicate("type", <<event, type>>)

\* Predicates.subject(event, agent)
Subject(event, agent) == AppliedPredicate("subject", <<event, agent>>)

\* the FULL reading of "noun verb": E_e. agent(e, noun) & type(e, verb)
Reading(id, noun, verb) ==
    Exists(AutoVariable("Event", id),
           And(Agent(AutoVariable("Event", id), noun), Type_(AutoVariable("Event", id), verb)))

JohnAte == Reading(0, john, eat)

BobAte == Reading(1, bob, eat)

NobodyBob == Forall(AutoVariable("Event", 2), Not(Agent(AutoVariable("Event", 2), bob)))

EatersNotJohn ==
    ForallF(AutoVariable("Event", 3), Type_(AutoVariable("Event", 3), eat),
            Not(Agent(AutoVariable("Event", 3), john)))

\* built on its own: its inner formula is EatersNotJohn with another variable
SomeEaterJohn ==
    ExistsF(AutoVariable("Event", 4), Type_(AutoVariable("Event", 4), eat),
            Agent(AutoVariable("Event", 4), john))

Layer(formulas, entities) == [formulas |-> formulas, entities |-> entities]

InputLayers ==
    { Layer({JohnAte}, {john, eat}),
      Layer({BobAte}, {bob}),
      Layer({Agent(e1, john), Agent(e1, bob)}, {e1, john, bob}),
      Layer({Type_(e1, eat), Type_(e1, run)}, {e1}),
      Layer({And(Agent(e1, john), Type_(e1, eat)), Not(Not(Agent(e1, bob)))}, {e1}),
      Layer({Agent(e1, john)}, {}),
      Layer({Not(Agent(e1, john))}, {}),
      Layer({False_}, {}),
      Layer({Not(True_)}, {}),
      Layer({Eq(john, bob)}, {}),
      Layer({Not(Eq(john, john))}, {}),
      Layer({Eq(john, john)}, {}),
      Layer({NobodyBob}, {}),
      Layer({EatersNotJohn}, {}),
      Layer({SomeEaterJohn}, {}),
      Layer({Subject(e2, john), Subject(e2, bob)}, {}) }

\* Axioms.get_axioms() of the event semantics
EventAxioms == <<"single_agent_events", "single_type_events">>

AxiomLists ==
    { <<>>, EventAxioms,
      <<"single_agent_events", "single_type_events", "axiom_only_one_subject">> }

----------------------------------------------------------------------------
(* The calculus specification: a caller builds a branch node by node, asks *)
(* for its models, continues from a model, and checks consistency.         *)

Init ==
    /\ tableau = NoTableau
    /\ constructed = 0
    /\ constant_id = 0
    /\ inference_agent = NoAgent
    /\ call = [op |-> "init"]

\* Tableau(formulas, entities, parent) on the current node
Construct(layer) ==
    /\ constructed < MaxNodes
    /\ tableau' = Tableau(layer.formulas, layer.entities, tableau)
    /\ constructed' = constructed + 1
    /\ call' = [op |-> "Tableau"]
    /\ UNCHANGED <<constant_id, inference_agent>>

\* list(generate_models(tableau, axioms))
GenerateModels(axioms) ==
    /\ tableau # NoTableau
    /\ LET result == generate_models(tableau, axioms, constant_id)
       IN /\ call' = [op |-> "generate_models", tableau |-> tableau, axioms |-> axioms,
                      models |-> result.models, raised |-> result.raised]
          /\ constant_id' = result.id
    /\ UNCHANGED <<tableau, constructed, inference_agent>>

\* the caller goes on from a model that was yielded, to build on it
SelectModel(i) ==
    /\ call.op = "generate_models"
    /\ i \in 1..Len(call.models)
    /\ constructed < MaxNodes
    /\ Len(call.models[i]) <= 2 * constructed
    /\ tableau' = call.models[i]
    /\ call' = [op |-> "select"]
    /\ UNCHANGED <<constructed, constant_id, inference_agent>>

IsBranchConsistent ==
    /\ tableau # NoTableau
    /\ call' = [op |-> "is_branch_consistent", tableau |-> tableau,
                result |-> is_branch_consistent(tableau)]
    /\ UNCHANGED <<tableau, constructed, constant_id, inference_agent>>

CheckAxiomsConsistent ==
    /\ tableau # NoTableau
    /\ call' = [op |-> "check_axioms_consistent", tableau |-> tableau,
                result |-> check_axioms_consistent(tableau)]
    /\ UNCHANGED <<tableau, constructed, constant_id, inference_agent>>

Next ==
    \/ \E layer \in InputLayers : Construct(layer)
    \/ \E axioms \in AxiomLists : GenerateModels(axioms)
    \/ \E i \in 1..2 : SelectModel(i)
    \/ IsBranchConsistent
    \/ CheckAxiomsConsistent

Spec == Init /\ [][Next]_vars

----------------------------------------------------------------------------
(* The unification specification: a caller unifies two terms, or asks for  *)
(* the most general unifier of a list of equalities.                       *)

VarX == Variable("agent", "x")

VarY == Variable("agent", "y")

WitnessW == EConstant("agent", "w")

WitnessV == EConstant("agent", "v")

UnifyTerms == {john, bob, VarX, VarY, WitnessW, WitnessV, eat, Variable("type", "x")}

RECURSIVE ListsOf(_, _)
\* the lists of 1 to n elements of S
ListsOf(S, n) ==
    IF n = 0 THEN {}
    ELSE {<<e>> : e \in S} \cup {<<e>> \o l : e \in S, l \in ListsOf(S, n - 1)}

\* the lists of up to n equalities between the terms
UnifyEqualities(n) == ListsOf({Eq(l, r) : l, r \in UnifyTerms}, n)

\* the caller holds two terms, or a list of equalities
InitUnify ==
    /\ tableau = NoTableau
    /\ constructed = 0
    /\ constant_id = 0
    /\ inference_agent = NoAgent
    /\ call \in {[op |-> "terms", term1 |-> term1, term2 |-> term2] :
                    term1 \in UnifyTerms, term2 \in UnifyTerms}
                \cup {[op |-> "equalities", equalities |-> equalities] :
                         equalities \in UnifyEqualities(MaxEqualities)}

\* Substitution._unify(term1, term2)
UnifyCall ==
    /\ call.op = "terms"
    /\ call' = [op |-> "_unify", term1 |-> call.term1, term2 |-> call.term2,
                raised |-> Unify(call.term1, call.term2).raised,
                sub |-> Unify(call.term1, call.term2).sub]
    /\ UNCHANGED <<tableau, constructed, constant_id, inference_agent>>

\* Substitution.most_general_unifier(equalities)
MostGeneralUnifierCall ==
    /\ call.op = "equalities"
    /\ call' = [op |-> "most_general_unifier", equalities |-> call.equalities,
                none |-> most_general_unifier(call.equalities).none,
                sub |-> most_general_unifier(call.equalities).sub]
    /\ UNCHANGED <<tableau, constructed, constant_id, inference_agent>>

NextUnify == UnifyCall \/ MostGeneralUnifierCall

SpecUnify == InitUnify /\ [][NextUnify]_vars

----------------------------------------------------------------------------
(* The merge specification: a caller builds nodes with substitutions of    *)
(* their own and merges them, with or without a parent.                    *)

MergeSubstitutions ==
    {EmptySubstitution, <<<<VarX, john>>>>, <<<<VarX, bob>>>>, <<<<VarX, WitnessW>>>>,
     <<<<WitnessW, john>>>>}

\* the formulas and entities of the nodes a caller merges
MergeLayers ==
    { Layer({}, {}),
      Layer({Agent(e1, john)}, {e1}),
      Layer({Agent(e1, bob)}, {e1, bob}) }

MergeNodes ==
    {TableauWith(layer.formulas, layer.entities, NoTableau, substitution) :
        layer \in MergeLayers, substitution \in MergeSubstitutions}

MergeParents ==
    {NoTableau, Tableau({Agent(e1, john)}, {}, NoTableau),
     Tableau({Agent(e1, bob)}, {bob}, Tableau({Type_(e1, eat)}, {e1}, NoTableau))}

\* the caller holds the substitutions, or the nodes and the parent, of a merge
InitMerge ==
    /\ tableau = NoTableau
    /\ constructed = 0
    /\ constant_id = 0
    /\ inference_agent = NoAgent
    /\ call \in {[op |-> "substitutions", substitutions |-> substitutions] :
                    substitutions \in ListsOf(MergeSubstitutions, MaxMerged)}
                \cup {[op |-> "tableaus", tableaus |-> tableaus, parent |-> parent] :
                         tableaus \in ListsOf(MergeNodes, MaxMerged), parent \in MergeParents}

\* Substitution.merge(*substitutions)
SubstitutionMergeCall ==
    /\ call.op = "substitutions"
    /\ call' = [op |-> "Substitution.merge", substitutions |-> call.substitutions,
                raised |-> SubstitutionMerge(call.substitutions).raised,
                none |-> SubstitutionMerge(call.substitutions).none,
                sub |-> SubstitutionMerge(call.substitutions).sub]
    /\ UNCHANGED <<tableau, constructed, constant_id, inference_agent>>

\* Tableau.merge(*tableaus, parent=parent)
TableauMergeCall ==
    /\ call.op = "tableaus"
    /\ call' = [op |-> "Tableau.merge", tableaus |-> call.tableaus, parent |-> call.parent,
                raised |-> TableauMerge(call.tableaus, call.parent).raised,
                node |-> TableauMerge(call.tableaus, call.parent).node]
    /\ UNCHANGED <<tableau, constructed, constant_id, inference_agent>>

NextMerge == SubstitutionMergeCall \/ TableauMergeCall

SpecMerge == InitMerge /\ [][NextMerge]_vars

----------------------------------------------------------------------------
(* The formula specification: a caller builds two formulas and compares    *)
(* them, or puts them in one set.                                          *)

ComparedFormulas ==
    { True_,
      Eq(john, john),
      Agent(e1, john),
      Type_(e1, eat),
      Not(Agent(e1, john)),
      And(Agent(e1, john), Type_(e1, eat)),
      Or(Agent(e1, john), Type_(e1, eat)),
      Not(And(Not(Agent(e1, john)), Not(Type_(e1, eat)))),
      Implies(Agent(e1, john), Type_(e1, eat)),
      Forall(AutoVariable("Event", 0), Agent(AutoVariable("Event", 0), john)),
      Forall(AutoVariable("Event", 1), Agent(AutoVariable("Event", 1), john)),
      Exists(AutoVariable("Event", 0), Agent(AutoVariable("Event", 0), john)),
      Not(Forall(AutoVariable("Event", 0), Not(Agent(AutoVariable("Event", 0), john)))),
      ForallF(AutoVariable("Event", 0), Type_(AutoVariable("Event", 0), eat),
              Agent(AutoVariable("Event", 0), john)),
      ForallF(AutoVariable("Event", 0), Agent(AutoVariable("Event", 0), john),
              Agent(AutoVariable("Event", 0), john)),
      ExistsF(AutoVariable("Event", 0), Type_(AutoVariable("Event", 0), eat),
              Agent(AutoVariable("Event", 0), john)) }

\* the caller holds two formulas, built one after the other
InitFormulas ==
    /\ tableau = NoTableau
    /\ constructed = 0
    /\ constant_id = 0
    /\ inference_agent = NoAgent
    /\ call \in {[op |-> "formulas", a |-> a, b |-> b] :
                    a \in ComparedFormulas, b \in ComparedFormulas}

\* a == b, with str(a) == str(b) and hash(a) == hash(b)
FormulaEqCall ==
    /\ call.op = "formulas"
    /\ call' = [op |-> "Formula.__eq__", a |-> call.a, b |-> call.b,
                eq |-> FormulaEq(call.a, call.b),
                same_str |-> FormulaStr(call.a) = FormulaStr(call.b),
                same_hash |-> FormulaHash(call.a) = FormulaHash(call.b)]
    /\ UNCHANGED <<tableau, constructed, constant_id, inference_agent>>

\* len({a, b})
SetOfFormulas ==
    /\ call.op = "formulas"
    /\ call' = [op |-> "set", a |-> call.a, b |-> call.b, len |-> SetLen(call.a, call.b)]
    /\ UNCHANGED <<tableau, constructed, constant_id, inference_agent>>

NextFormulas == FormulaEqCall \/ SetOfFormulas

SpecFormulas == InitFormulas /\ [][NextFormulas]_vars

----------------------------------------------------------------------------
(* The search specification: an InferenceAgent searches a narrative.       *)
(*                                                                         *)
(* A search node is [id, priority, sentence_depth, events, parent]: id is  *)
(* the order of construction and stands for the object's identity (the     *)
(* root is 0), events is the number of events on the branch of the node's  *)
(* tableau (Tableau.branch_events), parent the id of the parent node.      *)
(* The agent is [kind, story, position, sentences, nodes, node_id,         *)
(* created, current, phase, pc, dequeued, yielded, extended, result]:      *)
(* story and position are the narrator's, sentences is len(self.sentences),*)
(* nodes is the list under the PriorityQueue, pc the position of the       *)
(* generator in search, dequeued, yielded and extended the nodes that      *)
(* nodes.get() returned, that the consumer received and that               *)
(* _extend_model was called with, in order.                                *)
(*                                                                         *)
(* The narration module, the Term.Sort enumeration and the one-argument    *)
(* generate_models that _extend_model is written against are not among the *)
(* sources: what an expansion finds is drawn from every list of models     *)
(* (each with or without one more event than its parent), and it may also  *)
(* end in an exception.                                                    *)

MaxSentences == 2

MaxModels == 3

MaxSearchNodes == 6

AgentKinds == {"DFSAgent", "BFSAgent", "GreedyAgent"}

event_penalty == -20

model_depth_reward == 100

\* TableauSearchNode.__lt__
Lt(self, other) == self.priority > other.priority

RECURSIVE SiftDown(_, _, _, _)
\* heapq._siftdown(heap, startpos, pos), newitem being heap[pos]; Python
\* position p is index p + 1
SiftDown(heap, startpos, pos, newitem) ==
    IF pos > startpos /\ Lt(newitem, heap[((pos - 1) \div 2) + 1])
    THEN SiftDown([heap EXCEPT ![pos + 1] = heap[((pos - 1) \div 2) + 1]],
                  startpos, (pos - 1) \div 2, newitem)
    ELSE [heap EXCEPT ![pos + 1] = newitem]

\* the child that _siftup moves up: the right one unless the left one is
\* smaller
SmallerChild(heap, childpos) ==
    IF childpos + 1 < Len(heap) /\ ~Lt(heap[childpos + 1], heap[childpos + 2])
    THEN childpos + 1
    ELSE childpos

RECURSIVE SiftUp(_, _, _)
\* heapq._siftup(heap, 0), newitem being the item to place
SiftUp(heap, pos, newitem) ==
    IF 2 * pos + 1 < Len(heap)
    THEN SiftUp([heap EXCEPT ![pos + 1] = heap[SmallerChild(heap, 2 * pos + 1) + 1]],
                SmallerChild(heap, 2 * pos + 1), newitem)
    ELSE SiftDown(heap, 0, pos, newitem)

\* PriorityQueue.put(item): heappush
Put(heap, item) == SiftDown(Append(heap, item), 0, Len(heap), item)

\* a variant in which a get loses the nodes that wait
LoseWaiting(heap) == <<>>

\* the list that PriorityQueue.get() leaves: heappop
AfterGet(heap) ==
    IF Len(heap) = 1 THEN <<>>
    ELSE SiftUp(SubSeq(heap, 1, Len(heap) - 1), 0, heap[Len(heap)])

\* the item that PriorityQueue.get() returns
Get(heap) == heap[1]

\* InferenceAgent._create_initial_node, GreedyAgent._create_initial_node
root == [id |-> 0, priority |-> 0, sentence_depth |-> 0, events |-> 0, readings |-> <<>>,
         parent |-> -1]

\* every node passes for a model to yield
AnyNode(node) == TRUE

\* current_model is not self.root
is_not_root(node) == node.id # root.id

\* current_model before the first nodes.get()
NoNode ==
    [id |-> -1, priority |-> 0, sentence_depth |-> 0, events |-> 0, readings |-> <<>>,
     parent |-> -1]

\* MinEvents.score_node: the score of a node
score_node(n_events, sentence_depth) ==
    n_events * event_penalty + sentence_depth * model_depth_reward

\* make_search_node of the three agents: the node and the agent's node_id
make_search_node(a, sentence_depth, events, readings, parent) ==
    LET node_id == CASE a.kind = "DFSAgent" -> a.node_id - 1
                     [] a.kind = "BFSAgent" -> a.node_id + 1
                     [] OTHER -> a.node_id
        priority == IF a.kind = "GreedyAgent" THEN score_node(events, sentence_depth)
                    ELSE node_id
    IN [node |-> [id |-> a.created, priority |-> priority,
                  sentence_depth |-> sentence_depth, events |-> events,
                  readings |-> readings, parent |-> parent.id],
        node_id |-> node_id]

\* self.nodes.put(self.make_search_node(...))
PutNode(a, made) ==
    [a EXCEPT !.nodes = Put(@, made.node), !.node_id = made.node_id, !.created = @ + 1]

RECURSIVE PutModels(_, _, _)
\* the loops of _extend_model over the models found for the next sentence;
\* models holds, for each model, the events it adds to the branch; the new
\* tableau holds a reading of self.sentences[model.sentence_depth] under
\* model.tableau
PutModels(a, model, models) ==
    IF models = <<>> THEN a
    ELSE PutModels(PutNode(a, make_search_node(a, model.sentence_depth + 1,
                                               model.events + Head(models),
                                               Append(model.readings, model.sentence_depth),
                                               model)),
                   model, Tail(models))

\* a variant that expands a node whatever its depth
ExtendAtAnyDepth(a, model, models) == PutModels(a, model, models)

\* InferenceAgent._extend_model(model)
extend_model(a, model, models) ==
    IF model.sentence_depth = a.sentences THEN a ELSE PutModels(a, model, models)

\* InferenceAgent.__init__, and a narrator of story sentences
NewAgent(kind, story) ==
    [kind |-> kind, story |-> story, position |-> 0, sentences |-> 0,
     nodes |-> Put(<<>>, root), node_id |-> 0, created |-> 1, current |-> NoNode,
     phase |-> "for", pc |-> "for", dequeued |-> <<>>, yielded |-> <<>>,
     extended |-> <<>>, result |-> "none"]

\* current_model = self.nodes.get()
Dequeue(a, phase) ==
    [a EXCEPT !.current = Get(a.nodes), !.nodes = AfterGet(a.nodes),
              !.dequeued = Append(@, Get(a.nodes)), !.phase = phase, !.pc = "got"]

\* an empty queue raises when a sentence was pulled
RaiseWhenEmpty(a) ==
    IF a.nodes = <<>> THEN [a EXCEPT !.pc = "raised"] ELSE Dequeue(a, "for")

\* the body of the for loop up to nodes.get(), after a sentence was pulled
AfterSentence(a) ==
    IF a.nodes = <<>> THEN [a EXCEPT !.pc = "returned", !.result = "False"]
    ELSE Dequeue(a, "for")

\* the models an expansion can find
ModelLists == {<<>>} \cup ListsOf({0, 1}, MaxModels)

InitSearch ==
    /\ tableau = NoTableau
    /\ constructed = 0
    /\ constant_id = 0
    /\ call = [op |-> "search"]
    /\ inference_agent \in {NewAgent(kind, story) :
                               kind \in AgentKinds, story \in 0..MaxSentences}

\* for sentence in narrator: the narrator has a next sentence
NextSentence ==
    /\ inference_agent.pc = "for"
    /\ inference_agent.position < inference_agent.story
    /\ inference_agent' =
           AfterSentence([inference_agent EXCEPT !.position = @ + 1, !.sentences = @ + 1])
    /\ UNCHANGED <<tableau, constructed, constant_id, call>>

\* for sentence in narrator: Narrator.__next__ raises StopIteration
NarratorExhausted ==
    /\ inference_agent.pc = "for"
    /\ inference_agent.position >= inference_agent.story
    /\ inference_agent' = [inference_agent EXCEPT !.pc = "while"]
    /\ UNCHANGED <<tableau, constructed, constant_id, call>>

\* while not self.nodes.empty(): ... return True
Drain ==
    /\ inference_agent.pc = "while"
    /\ inference_agent' =
           IF inference_agent.nodes = <<>>
           THEN [inference_agent EXCEPT !.pc = "returned", !.result = "True"]
           ELSE Dequeue(inference_agent, "while")
    /\ UNCHANGED <<tableau, constructed, constant_id, call>>

\* if current_model is not self.root: yield current_model
Yield ==
    /\ inference_agent.pc = "got"
    /\ is_not_root(inference_agent.current)
    /\ inference_agent' = [inference_agent EXCEPT !.yielded = Append(@, inference_agent.current),
                                                  !.pc = "yielded"]
    /\ UNCHANGED <<tableau, constructed, constant_id, call>>

\* the consumer resumes the generator, or the root was skipped:
\* self._extend_model(current_model) returns
ExtendModel(models) ==
    /\ \/ inference_agent.pc = "yielded"
       \/ inference_agent.pc = "got" /\ ~is_not_root(inference_agent.current)
    /\ inference_agent.created + Len(models) <= MaxSearchNodes
    /\ inference_agent' =
           [extend_model(inference_agent, inference_agent.current, models)
               EXCEPT !.extended = Append(@, inference_agent.current),
                      !.pc = inference_agent.phase]
    /\ UNCHANGED <<tableau, constructed, constant_id, call>>

\* self._extend_model(current_model) raises while it reads the sentence
ExtendModelRaises ==
    /\ \/ inference_agent.pc = "yielded"
       \/ inference_agent.pc = "got" /\ ~is_not_root(inference_agent.current)
    /\ inference_agent.current.sentence_depth # inference_agent.sentences
    /\ inference_agent' = [inference_agent EXCEPT !.extended = Append(@, inference_agent.current),
                                                  !.pc = "raised"]
    /\ UNCHANGED <<tableau, constructed, constant_id, call>>

NextSearch ==
    \/ NextSentence
    \/ NarratorExhausted
    \/ Drain
    \/ Yield
    \/ \E models \in ModelLists : ExtendModel(models)
    \/ ExtendModelRaises

SpecSearch == InitSearch /\ [][NextSearch]_vars

\* the caller keeps pulling: the generator is resumed after every yield, and
\* between two yields the code runs on
SpecSearchFair == SpecSearch /\ WF_vars(NextSearch)

----------------------------------------------------------------------------
(* The rules specification: a caller holds a node of a branch and applies  *)
(* one inference rule to it.                                               *)

SomeJohn == Exists(AutoVariable("Event", 5), Agent(AutoVariable("Event", 5), john))

\* the existential of SomeJohn written without the sugar
NotNobodyJohn ==
    Not(Forall(AutoVariable("Event", 6), Not(Agent(AutoVariable("Event", 6), john))))

JohnOrBob == Not(And(Not(Agent(e1, john)), Not(Agent(e1, bob))))

JohnOrAte == Or(Agent(e1, john), Type_(e1, eat))

RuleLayers ==
    { Layer({And(Agent(e1, john), Type_(e1, eat)), Agent(e1, john)}, {e1}),
      Layer({And(Agent(e1, john), Agent(e1, bob)), And(Agent(e1, bob), Type_(e1, eat))}, {}),
      Layer({Agent(e1, john)}, {e1, john}),
      Layer({JohnOrBob}, {}),
      Layer({JohnOrBob, JohnOrAte}, {}),
      Layer({SomeJohn}, {e1}),
      Layer({NotNobodyJohn}, {}),
      Layer({NobodyBob}, {}),
      Layer({NobodyBob, Not(Agent(e1, bob))}, {e1}),
      Layer({EatersNotJohn}, {}),
      Layer({Type_(e1, eat)}, {e1}),
      Layer({SomeEaterJohn}, {}),
      Layer({SomeEaterJohn, Type_(e1, eat), Agent(e1, john)}, {e1}),
      Layer({And(And(Agent(e1, john), Type_(e1, eat)), Agent(e1, bob))}, {}),
      Layer({Or(JohnOrBob, Type_(e1, eat))}, {}),
      Layer({Exists(AutoVariable("Event", 0),
                    Or(Agent(AutoVariable("Event", 0), john),
                       Type_(AutoVariable("Event", 0), eat)))}, {}) }

RECURSIVE RuleNodes(_)
\* the branches of up to depth nodes, None included
RuleNodes(depth) ==
    IF depth = 0 THEN {NoTableau}
    ELSE {NoTableau}
         \cup {Tableau(layer.formulas, layer.entities, parent) :
                  layer \in RuleLayers, parent \in RuleNodes(depth - 1)}

\* the caller holds a node
InitRules ==
    /\ tableau \in RuleNodes(MaxNodes) \ {NoTableau}
    /\ constructed = 0
    /\ constant_id = 0
    /\ inference_agent = NoAgent
    /\ call = [op |-> "node"]

\* try_and_elim(tableau)
TryAndElim ==
    /\ call.op = "node"
    /\ call' = [op |-> "try_and_elim", out |-> try_and_elim(tableau)]
    /\ UNCHANGED <<tableau, constructed, constant_id, inference_agent>>

\* try_and_elim(try_and_elim(tableau)), for a first application that returned a node
TryAndElimAgain ==
    /\ call.op = "try_and_elim"
    /\ call.out # NoTableau
    /\ call' = [op |-> "try_and_elim_again", first |-> call.out,
                out |-> try_and_elim(call.out)]
    /\ UNCHANGED <<tableau, constructed, constant_id, inference_agent>>

\* try_forall_elim(tableau)
TryForallElim ==
    /\ call.op = "node"
    /\ call' = [op |-> "try_forall_elim", out |-> try_forall_elim(tableau)]
    /\ UNCHANGED <<tableau, constructed, constant_id, inference_agent>>

\* try_focused_forall_elim(tableau)
TryFocusedForallElim ==
    /\ call.op = "node"
    /\ call' = [op |-> "try_focused_forall_elim", out |-> try_focused_forall_elim(tableau)]
    /\ UNCHANGED <<tableau, constructed, constant_id, inference_agent>>

\* try_or_elim(tableau)
TryOrElim ==
    /\ call.op = "node"
    /\ call' = [op |-> "try_or_elim", out |-> try_or_elim(tableau), raised |-> "None"]
    /\ UNCHANGED <<tableau, constructed, constant_id, inference_agent>>

\* try_exists_elim(tableau)
TryExistsElim ==
    /\ call.op = "node"
    /\ LET result == try_exists_elim(tableau, constant_id)
       IN /\ call' = [op |-> "try_exists_elim", out |-> result.out, raised |-> result.raised]
          /\ constant_id' = result.id
    /\ UNCHANGED <<tableau, constructed, inference_agent>>

\* try_focused_exists_elim(tableau)
TryFocusedExistsElim ==
    /\ call.op = "node"
    /\ LET result == try_focused_exists_elim(tableau, constant_id)
       IN /\ call' = [op |-> "try_focused_exists_elim", out |-> result.out,
                      raised |-> result.raised]
          /\ constant_id' = result.id
    /\ UNCHANGED <<tableau, constructed, inference_agent>>

\* the constants a caller names
NamedConstants == {john, bob, eat, run, e1, e2}

\* is_branch_consistent(child), for a child that equates a witness of a
\* branch returned by try_exists_elim with a named constant of its sort
IsBranchConsistentWithWitness ==
    /\ call.op = "try_exists_elim"
    /\ call.raised = "None"
    /\ \E branch \in call.out :
       \E witness \in {AutoConstant(sort, id) :
                          sort \in {TermSort(e) : e \in Entities(branch)},
                          id \in 0..(constant_id - 1)} \cap Entities(branch) :
       \E constant \in {c \in NamedConstants : TermSort(c) = TermSort(witness)} :
          call' = [op |-> "is_branch_consistent", branch |-> branch, witness |-> witness,
                   constant |-> constant,
                   result |-> is_branch_consistent(
                                  Tableau({Eq(witness, constant)}, {}, branch))]
    /\ UNCHANGED <<tableau, constructed, constant_id, inference_agent>>

\* the axiom lists of a caller with an axiom of its own
CallerAxiomLists ==
    {<<"agent_or_type">>, <<"agent_or_type", "single_agent_events">>,
     <<"agent_or_type", "single_agent_events", "single_type_events">>}

\* list(generate_models(tableau, axioms))
GenerateModelsWithAxioms ==
    /\ call.op = "node"
    /\ \E axioms \in CallerAxiomLists :
          LET result == generate_models(tableau, axioms, constant_id)
          IN /\ call' = [op |-> "generate_models", axioms |-> axioms, id |-> constant_id,
                         models |-> result.models, raised |-> result.raised]
             /\ constant_id' = result.id
    /\ UNCHANGED <<tableau, constructed, inference_agent>>

\* try_branching_rules(tableau)
TryBranchingRules ==
    /\ call.op = "node"
    /\ LET result == try_branching_rules(tableau, constant_id)
       IN /\ call' = [op |-> "try_branching_rules", out |-> result.out,
                      raised |-> result.raised]
          /\ constant_id' = result.id
    /\ UNCHANGED <<tableau, constructed, inference_agent>>

NextRules ==
    \/ GenerateModelsWithAxioms
    \/ TryBranchingRules
    \/ TryAndElim
    \/ TryAndElimAgain
    \/ IsBranchConsistentWithWitness
    \/ TryForallElim
    \/ TryFocusedForallElim
    \/ TryOrElim
    \/ TryExistsElim
    \/ TryFocusedExistsElim

SpecRules == InitRules /\ [][NextRules]_vars

----------------------------------------------------------------------------
(* The saturation specification: try_non_branching_rules round by round.   *)
(*                                                                         *)
(* A quantifier that a lambda builds with sort= gets a new variable,       *)
(* "_V{Variable._id}", every time the lambda is called, so the instance of *)
(* an axiom whose body is such a quantifier is a formula with a new name   *)
(* in every round.  try_forall_elim above is the rule for the axioms whose *)
(* bodies build no quantifier; here the instances are built as the partial *)
(* formula builds them, with call.variable_id for Variable._id.            *)

\* the most variables Variable(sort) names in one call
MaxVariables == 16

\* the variable was named by Variable(sort)
IsAutoVariable(v) == \E id \in 0..MaxVariables : v = AutoVariable(TermSort(v), id)

\* the formula holds a quantifier that its lambda builds with sort=
RECURSIVE BuildsQuantifier(_)
BuildsQuantifier(f) ==
    CASE f[1] \in {"and", "or", "implies"} -> BuildsQuantifier(f[2]) \/ BuildsQuantifier(f[3])
      [] f[1] = "not" -> BuildsQuantifier(f[2])
      [] f[1] \in {"forall", "exists", "forallF", "existsF"} -> IsAutoVariable(f[2])
      [] OTHER -> FALSE

\* QuantifiedFormula.__post_init__ inside a lambda: self.variable =
\* Variable(self.sort), named with the current Variable._id
RECURSIVE WithNewVariable(_, _)
WithNewVariable(f, id) ==
    CASE f[1] \in {"and", "or", "implies"} ->
            <<f[1], WithNewVariable(f[2], id), WithNewVariable(f[3], id)>>
      [] f[1] = "not" -> Not(WithNewVariable(f[2], id))
      [] f[1] \in {"forall", "exists"} /\ IsAutoVariable(f[2]) ->
            <<f[1], AutoVariable(TermSort(f[2]), id),
              Substitute(f[3], f[2], AutoVariable(TermSort(f[2]), id))>>
      [] OTHER -> f

\* the instances try_forall_elim builds in one call, the lambdas called in
\* the order of the list of (axiom, term) pairs
RECURSIVE CalledPartials(_, _)
CalledPartials(pairs, id) ==
    IF pairs = <<>> THEN [formulas |-> {}, id |-> id]
    ELSE LET instance == PartialFormula(Head(pairs)[1], Head(pairs)[2])
             rest == CalledPartials(Tail(pairs),
                                    IF BuildsQuantifier(instance) THEN id + 1 ELSE id)
         IN [formulas |-> {WithNewVariable(instance, id)} \cup rest.formulas, id |-> rest.id]

\* try_forall_elim with the variables its lambdas create
ForallElimCall(t, id) ==
    LET axioms == {f \in BranchFormulas(t) : IsForall(f)}
        called ==
            CalledPartials(SetToSeq({pair \in axioms \X BranchEntities(t) :
                                        TermSort(pair[2]) = SortOf(pair[1])}),
                           id)
    IN [out |-> ChildOrNone(called.formulas \ BranchFormulas(t), t), id |-> called.id]

\* lines 59 to 61 and 68 to 70: the non-empty outputs of the four rules
RulesCall(t, id) ==
    [outputs |-> DropNone(<<try_and_elim(t), try_double_negation(t), ForallElimCall(t, id).out,
                            try_focused_forall_elim(t)>>),
     id |-> ForallElimCall(t, id).id]

SaturateLayers ==
    RuleLayers
    \cup { Layer({Forall(AutoVariable("Event", 0),
                         Forall(AutoVariable("agent", 1),
                                Agent(AutoVariable("Event", 0), AutoVariable("agent", 1))))},
                 {e1, john}),
           Layer({Forall(Variable("Event", "x"),
                         Forall(Variable("agent", "y"),
                                Agent(Variable("Event", "x"), Variable("agent", "y"))))},
                 {e1, john}) }

RECURSIVE SaturateNodes(_)
SaturateNodes(depth) ==
    IF depth = 0 THEN {NoTableau}
    ELSE {NoTableau}
         \cup {Tableau(layer.formulas, layer.entities, parent) :
                  layer \in SaturateLayers, parent \in SaturateNodes(depth - 1)}

\* the caller holds a node
InitSaturate ==
    /\ tableau \in SaturateNodes(MaxNodes) \ {NoTableau}
    /\ constructed = 0
    /\ constant_id = 0
    /\ inference_agent = NoAgent
    /\ call = [op |-> "node"]

\* try_non_branching_rules(tableau) up to the loop: the rules are applied to
\* the node; the nodes of the universe hold the variables _V0 to _V6
NonBranchingRulesCall ==
    /\ call.op = "node"
    /\ call' = [op |-> "try_non_branching_rules", pc |-> "while", output |-> NoTableau,
                outputs |-> RulesCall(tableau, 7).outputs,
                variable_id |-> RulesCall(tableau, 7).id, rounds |-> 0]
    /\ UNCHANGED <<tableau, constructed, constant_id, inference_agent>>

\* one round of the while loop: the outputs are merged under the node and
\* the rules are applied to the merged output
NonBranchingRound ==
    /\ call.op = "try_non_branching_rules"
    /\ call.pc = "while"
    /\ call.outputs # <<>>
    /\ call.variable_id < MaxVariables
    /\ LET output == Merge(IF call.output # NoTableau THEN Append(call.outputs, call.output)
                           ELSE call.outputs,
                           tableau)
       IN call' = [call EXCEPT !.output = output,
                               !.outputs = RulesCall(output, call.variable_id).outputs,
                               !.variable_id = RulesCall(output, call.variable_id).id,
                               !.rounds = call.rounds + 1]
    /\ UNCHANGED <<tableau, constructed, constant_id, inference_agent>>

\* the loop ends and output is returned
NonBranchingReturn ==
    /\ call.op = "try_non_branching_rules"
    /\ call.pc = "while"
    /\ call.outputs = <<>>
    /\ call' = [call EXCEPT !.pc = "returned"]
    /\ UNCHANGED <<tableau, constructed, constant_id, inference_agent>>

NextSaturate == NonBranchingRulesCall \/ NonBranchingRound \/ NonBranchingReturn

SpecSaturate == InitSaturate /\ [][NextSaturate]_vars

----------------------------------------------------------------------------
(* Properties of generate_models                                           *)

\* the node model is saturated with respect to the node n: the conjuncts of
\* the conjunctions of n, the formulas under the double negations of n and
\* the instances of the universals of the branch of n are on its branch
Saturated(model, n) ==
    /\ \A f \in Formulas(n) :
           IsAnd(f) => f[2] \in BranchFormulas(model) /\ f[3] \in BranchFormulas(model)
    /\ \A f \in Formulas(n) :
           f[1] = "not" /\ Inner(f)[1] = "not" => Inner(Inner(f)) \in BranchFormulas(model)
    /\ \A f \in BranchFormulas(n) :
           IsForall(f) =>
               \A e \in BranchEntities(n) :
                   TermSort(e) = SortOf(f) => PartialFormula(f, e) \in BranchFormulas(model)

\* C1: every model yielded by generate_models(n, axioms) is saturated with
\* respect to the input node n (conjuncts, double negations, instances of
\* the universals of the branch).
C1_ModelsSaturated ==
    call.op = "generate_models" =>
        \A i \in 1..Len(call.models) : Saturated(call.models[i], call.tableau)

\* the events of a branch: what its agent and type atoms are about
EventsOf(t) ==
    {ArgsOf(f)[1] : f \in {g \in BranchFormulas(t) :
                              g[1] = "atom" /\ PredicateOf(g) \in {<<"agent", 2>>, <<"type", 2>>}}}

\* the reading of "bob ate" was added to a model of the reading of "john
\* ate", and the models of the result were generated, all with the axioms
\* of the event semantics
JohnThenBob ==
    /\ call.op = "generate_models"
    /\ call.axioms = EventAxioms
    /\ Len(call.tableau) >= 2
    /\ Formulas(call.tableau) = {BobAte}
    /\ \E i \in 1..Len(generate_models(Tableau({JohnAte}, {john, eat}, NoTableau),
                                       EventAxioms, 0).models) :
           Parent(call.tableau) =
               generate_models(Tableau({JohnAte}, {john, eat}, NoTableau),
                               EventAxioms, 0).models[i]

\* C2: the readings of "john ate" and then "bob ate", through generate_models
\* with the single-agent and single-type axioms, give at least one model
\* with two distinct events e1 and e2, agent and type literals for john and
\* eat on e1 and for bob and eat on e2.
C2_TwoEventWitnesses ==
    JohnThenBob =>
        \E i \in 1..Len(call.models) :
            \E ev1, ev2 \in EventsOf(call.models[i]) :
                /\ ev1 # ev2
                /\ {Agent(ev1, john), Type_(ev1, eat), Agent(ev2, bob), Type_(ev2, eat)}
                       \subseteq BranchFormulas(call.models[i])

\* the atoms of a predicate on a branch
AtomsOf(t, pred) == {f \in BranchFormulas(t) : f[1] = "atom" /\ PredicateOf(f) = <<pred, 2>>}

\* every event of the branch has at most one atom of the predicate
OnePerEvent(t, pred) ==
    \A a, b \in AtomsOf(t, pred) : ArgsOf(a)[1] = ArgsOf(b)[1] => a = b

WithEventAxioms ==
    /\ call.op = "generate_models"
    /\ \A axiom \in {"single_agent_events", "single_type_events"} :
           \E i \in 1..Len(call.axioms) : call.axioms[i] = axiom

RuleSaturated(t) == try_non_branching_rules(t) = NoTableau

\* no formula of the branch is a disjunction or an existential
NonBranching(t) ==
    \A f \in BranchFormulas(t) :
        ~(IsNot(f) /\ (IsAnd(Inner(f)) \/ IsForall(Inner(f)) \/ IsForallF(Inner(f))))

\* every axiom of the list accepts the node: it returns the node it was given
AxiomsAccept(t, axioms) == \A i \in 1..Len(axioms) : ApplyAxiom(axioms[i], t) = t

\* the input of the call is saturated, non-branching and consistent, the
\* axioms included
SaturatedInput ==
    /\ call.op = "generate_models"
    /\ RuleSaturated(call.tableau)
    /\ NonBranching(call.tableau)
    /\ is_branch_consistent(call.tableau)
    /\ AxiomsAccept(call.tableau, call.axioms)

----------------------------------------------------------------------------
(* Properties of is_branch_consistent and of the axioms                    *)

\* a and b are the same formula, up to the name of a bound variable
RECURSIVE SameFormula(_, _)
SameFormula(a, b) ==
    IF a[1] # b[1] THEN FALSE
    ELSE CASE a[1] \in {"atom", "eq"} -> a = b
           [] a[1] = "not" -> SameFormula(a[2], b[2])
           [] a[1] \in {"and", "or", "implies"} ->
                 SameFormula(a[2], b[2]) /\ SameFormula(a[3], b[3])
           [] a[1] \in {"forall", "exists"} ->
                 /\ SortOf(a) = SortOf(b)
                 /\ SameFormula(a[3], Substitute(b[3], b[2], a[2]))
           [] a[1] \in {"forallF", "existsF"} ->
                 /\ SortOf(a) = SortOf(b)
                 /\ SameFormula(a[3], Substitute(b[3], b[2], a[2]))
                 /\ SameFormula(a[4], Substitute(b[4], b[2], a[2]))

\* the branch holds the falsity literal, Not(True), or a formula and its
\* negation
ClosedBranch(t) ==
    \/ False_ \in BranchFormulas(t)
    \/ Not(True_) \in BranchFormulas(t)
    \/ \E p, q \in BranchFormulas(t) : IsNot(q) /\ SameFormula(Inner(q), p)

\* C5: is_branch_consistent(n) returns False whenever the branch of n holds
\* the falsity literal, Not(True), or some formula p together with Not(p),
\* also when p and Not(p) are in different nodes of the branch.
C5_ClosedBranchReported ==
    call.op = "is_branch_consistent" /\ ClosedBranch(call.tableau) => call.result = FALSE

IsNamedConstant(term) == TermKind(term) = "Constant"

\* C6: is_branch_consistent reports a node whose own formulas hold Eq(c1, c2)
\* for two distinct named constants of one sort as inconsistent, reports a
\* node that holds Not(Eq(c1, c1)) as inconsistent, and reports a node whose
\* only formula is Eq(c1, c1) as consistent.
C6_EqualityViolations ==
    call.op = "is_branch_consistent" =>
        /\ (\E f \in Formulas(call.tableau) :
               /\ IsEq(f)
               /\ IsNamedConstant(f[2]) /\ IsNamedConstant(f[3])
               /\ TermSort(f[2]) = TermSort(f[3])
               /\ f[2] # f[3])
           => call.result = FALSE
        /\ (\E f \in Formulas(call.tableau) :
               f[1] = "not" /\ IsEq(f[2]) /\ IsNamedConstant(f[2][2]) /\ f[2][2] = f[2][3])
           => call.result = FALSE
        /\ (\E c \in {john, bob, eat, run, e1} : BranchFormulas(call.tableau) = {Eq(c, c)})
           => call.result = TRUE

\* an equality of two distinct named constants was reported
C6_Witness ==
    /\ call.op = "is_branch_consistent"
    /\ Formulas(call.tableau) = {Eq(john, bob)}
    /\ call.result = FALSE

\* the node holds two atoms of the predicate for one event, with different
\* second arguments
TwoOfAKind(node, pred) ==
    \E a, b \in {f \in node.formulas : f[1] = "atom" /\ PredicateOf(f) = <<pred, 2>>} :
        ArgsOf(a)[1] = ArgsOf(b)[1] /\ ArgsOf(a)[2] # ArgsOf(b)[2]

\* C7: if some node of a branch holds two agent atoms, or two type atoms,
\* for one event with different second arguments, then the single-agent and
\* single-type axioms applied to that node or to any descendant of it,
\* followed by is_branch_consistent, report the branch inconsistent.
C7_AxiomsCloseBranch ==
    /\ call.op = "check_axioms_consistent"
    /\ \E i \in 1..Len(call.tableau) :
           TwoOfAKind(call.tableau[i], "agent") \/ TwoOfAKind(call.tableau[i], "type")
    => call.result = FALSE

\* the axioms were applied to a child of the node that holds the two atoms
C7_Witness ==
    /\ call.op = "check_axioms_consistent"
    /\ Len(call.tableau) = 2
    /\ TwoOfAKind(call.tableau[2], "agent") \/ TwoOfAKind(call.tableau[2], "type")
    /\ ~TwoOfAKind(call.tableau[1], "agent")
    /\ ~TwoOfAKind(call.tableau[1], "type")
    /\ call.result = FALSE

----------------------------------------------------------------------------
(* Properties of merging, unification and the axiom contract               *)

\* two of the nodes bind one term to two distinct named constants
ConflictingBindings(tableaus) ==
    \E i, j \in 1..Len(tableaus) :
        \E b1 \in {tableaus[i][1].substitution[k] : k \in 1..Len(tableaus[i][1].substitution)} :
            \E b2 \in {tableaus[j][1].substitution[k] :
                          k \in 1..Len(tableaus[j][1].substitution)} :
                /\ b1[1] = b2[1]
                /\ b1[2] # b2[2]
                /\ IsNamedConstant(b1[2])
                /\ IsNamedConstant(b2[2])

\* C8: Tableau.merge never raises when the substitutions of its arguments
\* conflict: when two of them bind one term to two distinct named constants,
\* merge returns a node whose formulas hold the falsity literal.
C8_MergeNeverRaises ==
    call.op = "Tableau.merge" /\ ConflictingBindings(call.tableaus) =>
        call.raised = "None" /\ False_ \in Formulas(call.node)

IsBindable(term) == TermKind(term) \in {"Variable", "EConstant"}

\* C9: for two terms of one sort, identical terms unify with the empty
\* substitution; terms that differ, one of them a Variable or an EConstant,
\* unify by binding that term to the other; two distinct named constants do
\* not unify and most_general_unifier returns None.
C9_Unification ==
    /\ call.op = "_unify" /\ TermSort(call.term1) = TermSort(call.term2) =>
           /\ call.term1 = call.term2 =>
                  call.raised = "None" /\ call.sub = EmptySubstitution
           /\ call.term1 # call.term2 /\ (IsBindable(call.term1) \/ IsBindable(call.term2)) =>
                  /\ call.raised = "None"
                  /\ \/ IsBindable(call.term1) /\ call.sub = <<<<call.term1, call.term2>>>>
                     \/ IsBindable(call.term2) /\ call.sub = <<<<call.term2, call.term1>>>>
    /\ /\ call.op = "most_general_unifier"
       /\ Len(call.equalities) = 1
       /\ IsNamedConstant(call.equalities[1][2])
       /\ IsNamedConstant(call.equalities[1][3])
       /\ TermSort(call.equalities[1][2]) = TermSort(call.equalities[1][3])
       /\ call.equalities[1][2] # call.equalities[1][3]
       => call.none

\* the list without its i-th element
RemoveAt(list, i) == SubSeq(list, 1, i - 1) \o SubSeq(list, i + 1, Len(list))

\* the i-th axiom of the call returned None for the node it was given
ReturnedNothing(i) ==
    ApplyAxiom(call.axioms[i], Merge(<<call.tableau, call.tableau>>, call.tableau)) = NoTableau

\* C10: an axiom that returns nothing for a node adds nothing:
\* generate_models(n, axioms) with such an axiom ends without an error and
\* yields the models it yields with that axiom removed.
C10_NoneAxiomIgnored ==
    call.op = "generate_models" =>
        \A i \in 1..Len(call.axioms) :
            ReturnedNothing(i) =>
                /\ call.raised = "None"
                /\ call.models =
                       generate_models(call.tableau, RemoveAt(call.axioms, i), constant_id).models

----------------------------------------------------------------------------
(* Properties of search                                                    *)

\* the nodes of a sequence other than the root
NonRoot(nodes) == SelectSeq(nodes, LAMBDA node : node.id # root.id)

\* the nodes that were dequeued and have reached the yield statement
PastYield ==
    IF inference_agent.pc = "got"
    THEN SubSeq(inference_agent.dequeued, 1, Len(inference_agent.dequeued) - 1)
    ELSE inference_agent.dequeued

\* every dequeued node other than the root is yielded exactly once, in
\* dequeue order and before it is expanded; the root is never yielded; and
\* search returns True only after the narrator is exhausted and the queue
\* has been emptied
YieldedInDequeueOrder ==
    /\ \A i, j \in 1..Len(inference_agent.dequeued) :
           inference_agent.dequeued[i].id = inference_agent.dequeued[j].id => i = j
    /\ inference_agent.yielded = NonRoot(PastYield)
    /\ Len(inference_agent.extended) <= Len(inference_agent.dequeued)
    /\ inference_agent.extended =
           SubSeq(inference_agent.dequeued, 1, Len(inference_agent.extended))
    /\ NonRoot(inference_agent.extended) =
           SubSeq(inference_agent.yielded, 1, Len(NonRoot(inference_agent.extended)))
    /\ inference_agent.phase = "while" =>
           inference_agent.position = inference_agent.story
    /\ inference_agent.result = "True" =>
           /\ inference_agent.nodes = <<>>
           /\ inference_agent.position = inference_agent.story

C14_EmptyQueueEndsSearch ==
    [][(/\ inference_agent.pc = "for"
        /\ inference_agent.position < inference_agent.story
        /\ inference_agent.nodes = <<>>)
       => /\ inference_agent'.pc = "returned"
          /\ inference_agent'.result = "False"
          /\ inference_agent'.yielded = inference_agent.yielded
          /\ inference_agent'.dequeued = inference_agent.dequeued]_vars

\* search returned False at the second sentence, nothing being left to
\* dequeue after the root
C14_Witness ==
    /\ inference_agent.result = "False"
    /\ inference_agent.pc = "returned"
    /\ inference_agent.position = 2
    /\ Len(inference_agent.dequeued) = 1

----------------------------------------------------------------------------
(* Properties of the inference rules                                       *)

\* the negation of a formula with a leading double negation removed
Negated(f) == IF IsNot(f) THEN Inner(f) ELSE Not(f)

\* the disjunctions Not(And(Not l, Not r)) among the formulas of a node
DisjunctionsOf(n) == {f \in Formulas(n) : IsNot(f) /\ IsAnd(Inner(f))}

\* the sets obtained by choosing one disjunct from each disjunction of a
\* node and removing the formulas already on its branch
OrChoiceSets(n) ==
    {{Negated(Inner(f)[choice[f]]) : f \in DisjunctionsOf(n)} \ BranchFormulas(n) :
        choice \in [DisjunctionsOf(n) -> {2, 3}]}

\* C15: try_or_elim(n) returns exactly one child of n for every distinct
\* non-empty set obtained by choosing one disjunct from each disjunction
\* among n's own formulas and removing the formulas already on n's branch:
\* no returned branch is empty, no two have the same formula set, and
\* nothing is returned when there is no such set.
C15_OrElimBranches ==
    call.op = "try_or_elim" =>
        /\ \A child \in call.out :
               /\ Parent(child) = tableau
               /\ Formulas(child) # {}
               /\ Entities(child) = {}
        /\ {Formulas(child) : child \in call.out} = OrChoiceSets(tableau) \ {{}}
        /\ \A a, b \in call.out : Formulas(a) = Formulas(b) => a = b

\* or elimination over two disjunctions returned three branches, one
\* choice having nothing new for the branch
C15_Witness ==
    /\ call.op = "try_or_elim"
    /\ Cardinality(DisjunctionsOf(tableau)) = 2
    /\ {} \in OrChoiceSets(tableau)
    /\ Cardinality(call.out) = 3

\* the existentials Not(Forall x:s. body(x)) among the formulas of a node
ExistentialsOf(n) == {f \in Formulas(n) : IsNot(f) /\ IsForall(Inner(f))}

\* Not(body(e)) with a leading double negation removed, for the existential f
NegatedBody(f, e) == Negated(PartialFormula(Inner(f), e))

\* the branch entities of a node that have the sort of the existential f
EntitiesOfSort(n, f) == {e \in BranchEntities(n) : TermSort(e) = SortOf(Inner(f))}

\* the candidates of exists elimination for the one existential f of n:
\* children of n, one holding the instance for every branch entity of the
\* sort, exactly one with a fresh witness of the sort and its instance, and
\* no others
ExistsCandidates(n, f, out) ==
    /\ \A candidate \in out : Parent(candidate) = n
    /\ \A e \in EntitiesOfSort(n, f) :
           \E candidate \in out : NegatedBody(f, e) \in BranchFormulas(candidate)
    /\ Cardinality({candidate \in out : Entities(candidate) # {}}) = 1
    /\ \A candidate \in out :
           \/ /\ Entities(candidate) = {}
              /\ \E e \in EntitiesOfSort(n, f) :
                     Formulas(candidate) \subseteq {NegatedBody(f, e)}
           \/ \E witness \in Entities(candidate) :
                  /\ Entities(candidate) = {witness}
                  /\ witness \notin BranchEntities(n)
                  /\ TermSort(witness) = SortOf(Inner(f))
                  /\ Formulas(candidate) = {NegatedBody(f, witness)}

\* C16: for a node n whose own formulas contain one existential
\* Not(Forall x:s. body(x)), try_exists_elim returns candidates, all
\* children of n: for every branch entity e of sort s some candidate's
\* branch contains Not(body(e)) with a leading double negation removed,
\* exactly one candidate introduces a new entity, a fresh witness of sort s,
\* and asserts the same formula for it, and there are no other candidates.
C16_ExistsElimCandidates ==
    (call.op = "try_exists_elim" /\ Cardinality(ExistentialsOf(tableau)) = 1) =>
        /\ call.raised = "None"
        /\ \A f \in ExistentialsOf(tableau) : ExistsCandidates(tableau, f, call.out)

\* a candidate adds nothing to the branch of the node n
EmptyAdditions(candidate, n) ==
    /\ Formulas(candidate) \ BranchFormulas(n) = {}
    /\ Entities(candidate) \ BranchEntities(n) = {}

\* C17: no candidate branch returned by try_or_elim, try_exists_elim or
\* try_focused_exists_elim has empty additions (no new formula and no new
\* entity relative to the input's branch), and no two candidates returned
\* by one call are equal.
C17_NoEmptyOrEqualCandidates ==
    call.op \in {"try_or_elim", "try_exists_elim", "try_focused_exists_elim"} =>
        /\ \A candidate \in call.out : ~EmptyAdditions(candidate, tableau)
        /\ \A a, b \in call.out :
               (Formulas(a) = Formulas(b) /\ Entities(a) = Entities(b)) => a = b

\* the formulas of the node a non-branching rule returned, none for None
Emitted(out) == IF out = NoTableau THEN {} ELSE Formulas(out)

\* the focused bodies of the ForallF axioms on the branch of n, instantiated
\* for the branch entities of the axiom's sort whose instantiated guard is a
\* formula on the branch
GuardedInstances(n) ==
    {FocusedPartial(axiom, e) :
        <<axiom, e>> \in
            {<<axiom, e>> \in {f \in BranchFormulas(n) : IsForallF(f)} \X BranchEntities(n) :
                /\ TermSort(e) = SortOf(axiom)
                /\ UnfocusedPartial(axiom, e) \in BranchFormulas(n)}}

\* C18: try_focused_forall_elim(n) emits, for each ForallF axiom on n's
\* branch and each branch entity e of the axiom's sort whose instantiated
\* unfocused guard is already a formula on the branch, the instantiated
\* focused body (unless it is already on the branch), and emits nothing for
\* entities whose guard is absent.
C18_FocusedForallElim ==
    call.op = "try_focused_forall_elim" =>
        Emitted(call.out) = GuardedInstances(tableau) \ BranchFormulas(tableau)

\* the Forall axioms anywhere on the branch of a node
ForallAxioms(n) == {f \in BranchFormulas(n) : IsForall(f)}

\* body(e) for every Forall axiom on the branch of n and every branch entity
\* e whose sort equals the axiom's sort
SortedInstances(n) ==
    {PartialFormula(axiom, e) :
        <<axiom, e>> \in {<<axiom, e>> \in ForallAxioms(n) \X BranchEntities(n) :
                            TermSort(e) = SortOf(axiom)}}

\* body(e) for the axioms and the branch entities of another sort
UnsortedInstances(n) ==
    {PartialFormula(axiom, e) :
        <<axiom, e>> \in {<<axiom, e>> \in ForallAxioms(n) \X BranchEntities(n) :
                            TermSort(e) # SortOf(axiom)}}

ConjunctsOf(n) ==
    UNION {{f[2], f[3]} : f \in {g \in Formulas(n) : IsAnd(g)}}

\* C20: try_and_elim(n) returns a new child of n whose formulas are exactly
\* the conjuncts of the conjunctions among n's own formulas (not its
\* ancestors') that are not already on n's branch, and returns nothing when
\* that set is empty.
C20_AndElim ==
    call.op = "try_and_elim" =>
        /\ Emitted(call.out) = ConjunctsOf(tableau) \ BranchFormulas(tableau)
        /\ call.out # NoTableau =>
               /\ Parent(call.out) = tableau
               /\ Formulas(call.out) # {}
               /\ Entities(call.out) = {}

\* two conjunctions with a common conjunct were resolved under a parent
\* that holds a conjunction of its own and one of the conjuncts
C20_Witness ==
    /\ call.op = "try_and_elim"
    /\ call.out # NoTableau
    /\ Cardinality({f \in Formulas(tableau) : IsAnd(f)}) = 2
    /\ Cardinality(Formulas(call.out)) = 2
    /\ \E f \in BranchFormulas(Parent(tableau)) : IsAnd(f)
    /\ ConjunctsOf(tableau) \cap BranchFormulas(tableau) # {}

\* C21: and-elimination is idempotent for all formulas f, g: applying
\* try_and_elim again to the child of a first application yields nothing
C21_AndElimIdempotent ==
    call.op = "try_and_elim_again" => call.out = NoTableau

\* C21, amended: the second application resolves the conjunctions the first
\* one emitted, and yields nothing when no emitted conjunct is a conjunction
C21_AndElimAgain ==
    call.op = "try_and_elim_again" =>
        LET emitted == ConjunctsOf(call.first) \ BranchFormulas(call.first)
        IN /\ call.first = Tableau(ConjunctsOf(tableau) \ BranchFormulas(tableau), {}, tableau)
           /\ IF emitted = {} THEN call.out = NoTableau
              ELSE call.out = Tableau(emitted, {}, call.first)
           /\ (\A f \in Formulas(call.first) : ~IsAnd(f)) => call.out = NoTableau

\* a second application after a first one that emitted no conjunction
C21_Witness ==
    /\ call.op = "try_and_elim_again"
    /\ \A f \in Formulas(call.first) : ~IsAnd(f)
    /\ \E f \in BranchFormulas(tableau) : IsAnd(f) /\ f[2] \in Formulas(call.first)
    /\ call.out = NoTableau


----------------------------------------------------------------------------
(* Properties of Tableau.merge                                             *)

\* the lists that hold the elements of a list in another order
Orderings(list) ==
    {[i \in 1..Len(list) |-> list[p[i]]] :
        p \in {q \in [1..Len(list) -> 1..Len(list)] :
                  \A i, j \in 1..Len(list) : q[i] = q[j] => i = j}}

\* Substitution.merge returned a substitution
Mergeable(tableaus) ==
    LET merged == SubstitutionMerge([i \in 1..Len(tableaus) |-> tableaus[i][1].substitution])
    IN merged.raised = "None" /\ ~merged.none

\* Tableau.__eq__: the formulas and the entities of the two nodes
TableauEq(a, b) ==
    IF a = NoTableau \/ b = NoTableau THEN a = b
    ELSE Formulas(a) = Formulas(b) /\ Entities(a) = Entities(b)

\* C22: for nodes T1..Tn with mergeable substitutions and an optional parent
\* P, Tableau.merge(T1..Tn, parent=P) returns a node with parent P whose
\* formulas are the union of the Ti's own formulas less the formulas on P's
\* branch, likewise for the entities, and the result is the same for every
\* ordering of T1..Tn.
C22_MergeIsUnion ==
    (call.op = "Tableau.merge" /\ Mergeable(call.tableaus)) =>
        /\ call.raised = "None"
        /\ call.node # NoTableau
        /\ Parent(call.node) = call.parent
        /\ Formulas(call.node) =
               UNION {Formulas(call.tableaus[i]) : i \in 1..Len(call.tableaus)}
                   \ BranchFormulas(call.parent)
        /\ Entities(call.node) =
               UNION {Entities(call.tableaus[i]) : i \in 1..Len(call.tableaus)}
                   \ BranchEntities(call.parent)
        /\ \A other \in Orderings(call.tableaus) :
               /\ TableauMerge(other, call.parent).raised = "None"
               /\ TableauEq(TableauMerge(other, call.parent).node, call.node)
               /\ Parent(TableauMerge(other, call.parent).node) = call.parent

\* two nodes with different formulas and entities, some of them on the
\* branch of the parent, were merged under a parent that has a parent
C22_Witness ==
    /\ call.op = "Tableau.merge"
    /\ Mergeable(call.tableaus)
    /\ Len(call.tableaus) = 2
    /\ Formulas(call.tableaus[1]) # Formulas(call.tableaus[2])
    /\ call.tableaus[1][1].substitution # call.tableaus[2][1].substitution
    /\ call.parent # NoTableau
    /\ Parent(call.parent) # NoTableau
    /\ Formulas(call.node) # {}
    /\ Formulas(call.node) #
           UNION {Formulas(call.tableaus[i]) : i \in 1..Len(call.tableaus)}
    /\ Entities(call.node) = {}


----------------------------------------------------------------------------
(* Properties of formula equality                                          *)

\* C23: for any two formulas a and b, a == b holds exactly when their
\* canonical strings are identical, and whenever a == b their hashes are
\* equal, so that a set never keeps two equal formulas; this includes focused
\* quantifiers built independently from the same guard and body, and a
\* disjunction compared with its Not(And(Not l, Not r)) encoding.
C23_EqualityIsStringIdentity ==
    /\ call.op = "Formula.__eq__" =>
           /\ call.eq <=> call.same_str
           /\ call.eq => call.same_hash
    /\ call.op = "set" => (FormulaEq(call.a, call.b) => call.len = 1)


----------------------------------------------------------------------------
(* Properties of is_branch_consistent after the inference rules            *)

\* C24: a witness introduced by exists-elimination is not subject to the
\* unique-name assumption: is_branch_consistent does not report a node
\* inconsistent merely because it holds Eq(w, c) for a witness w and a named
\* constant c of the same sort.
C24_WitnessMayEqualConstant ==
    (call.op = "is_branch_consistent" /\ is_branch_consistent(call.branch)) => call.result


----------------------------------------------------------------------------
(* Properties of the branch loop of generate_models                        *)

\* the node generate_models branches from: the input merged with the
\* outputs of the axioms
BranchingRoot(t, axioms) ==
    Merge(<<MaximalNonBranching(t, try_non_branching_rules(t))>>
              \o ApplyAxioms(axioms, MaximalNonBranching(t, try_non_branching_rules(t))),
          t)

\* node is the node branch or one of its descendants
OnBranch(node, branch) ==
    /\ Len(node) >= Len(branch)
    /\ SubSeq(node, Len(node) - Len(branch) + 1, Len(node)) = branch

\* C25: for a consistent branch, generate_models yields only the models
\* produced by recursing on that branch: when the recursion on a branch
\* yields no model, nothing is yielded for that branch.
C25_OnlyRecursedModels ==
    (call.op = "generate_models" /\ call.raised = "None") =>
        LET branches == try_branching_rules(BranchingRoot(tableau, call.axioms), call.id)
        IN \A branch \in {b \in branches.out : is_branch_consistent(b)} :
               LET outputs == generate_models(branch, call.axioms, branches.id)
               IN (outputs.raised = "None" /\ outputs.models = <<>>) =>
                      \A i \in 1..Len(call.models) : ~OnBranch(call.models[i], branch)


----------------------------------------------------------------------------
(* Properties of try_branching_rules                                       *)

\* the disjunctions and existentials resolved on the way to a returned
\* node: those of the input node and those of the returned node
ResolvedIn(node) ==
    {f \in Formulas(tableau) \cup Formulas(node) :
        IsNot(f) /\ (IsAnd(Inner(f)) \/ IsForall(Inner(f)))}

\* the alternatives of a disjunction or an existential on the branch of a node
AlternativesOf(f, node) ==
    IF IsAnd(Inner(f)) THEN {Negated(Inner(f)[2]), Negated(Inner(f)[3])}
    ELSE {NegatedBody(f, e) : e \in EntitiesOfSort(node, f)}

\* C26: each node returned by try_branching_rules results from exactly one
\* choice of alternative for every disjunction or existential it resolves,
\* including those introduced by an earlier choice: two alternatives of the
\* same disjunction or existential are never combined into one returned
\* node (unless another resolved formula offers one of them as well).
C26_OneAlternativePerChoice ==
    (call.op = "try_branching_rules" /\ call.raised = "None") =>
        \A node \in call.out :
        \A f \in ResolvedIn(node) :
        \A a, b \in AlternativesOf(f, node) \cap Formulas(node) :
            a # b =>
                \E g \in ResolvedIn(node) \ {f} :
                    a \in AlternativesOf(g, node) \/ b \in AlternativesOf(g, node)


----------------------------------------------------------------------------
(* Properties of is_branch_consistent along a branch                       *)

\* the ancestors of a node, nearest first
AncestorsOf(node) == {SubSeq(node, i, Len(node)) : i \in 2..Len(node)}

\* C27: closedness is inherited down a branch: if is_branch_consistent(n) is
\* False for a node n, it is False for every descendant of n, whatever the
\* cause of n's inconsistency (falsity, Not(True), complementary formulas,
\* or an equality violation).
C27_ClosednessInherited ==
    call.op = "is_branch_consistent" =>
        ((\E n \in AncestorsOf(call.tableau) : ~is_branch_consistent(n)) => ~call.result)


----------------------------------------------------------------------------
(* Properties of try_non_branching_rules                                   *)

\* the number of formulas the non-branching rules can derive from a
\* formula with n entities, equal formulas counted once
RECURSIVE DerivableFrom(_, _)
DerivableFrom(f, n) ==
    CASE IsAnd(f) -> 1 + DerivableFrom(f[2], n) + DerivableFrom(f[3], n)
      [] IsNot(f) /\ IsNot(Inner(f)) -> 1 + DerivableFrom(Inner(Inner(f)), n)
      [] IsForall(f) -> 1 + n * DerivableFrom(f[3], n)
      [] IsForallF(f) -> 1 + n * DerivableFrom(f[4], n)
      [] OTHER -> 1

RECURSIVE DerivableFromAll(_, _)
DerivableFromAll(formulas, n) ==
    IF formulas = <<>> THEN 0
    ELSE DerivableFrom(Head(formulas), n) + DerivableFromAll(Tail(formulas), n)

\* C28: try_non_branching_rules terminates on every node with finitely many
\* formulas and entities, nested quantifiers included: every round adds a
\* formula new to the branch and no rule introduces entities, so the loop
\* has no more rounds than there are formulas to derive from the branch.
C28_SaturationTerminates ==
    call.op = "try_non_branching_rules" =>
        call.rounds <= DerivableFromAll(SetToSeq(BranchFormulas(tableau)),
                                        Cardinality(BranchEntities(tableau)))


----------------------------------------------------------------------------
(* Properties of the search nodes                                          *)

\* the nodes that were ever enqueued: those waiting and those dequeued
EnqueuedNodes ==
    {inference_agent.nodes[i] : i \in 1..Len(inference_agent.nodes)}
    \cup {inference_agent.dequeued[i] : i \in 1..Len(inference_agent.dequeued)}

\* C29: every search node enqueued by search has sentence_depth equal to its
\* parent's sentence_depth plus one and never greater than the number of
\* sentences consumed so far, and its tableau extends its parent's tableau
\* with a reading of the sentence at index parent.sentence_depth; hence a
\* node at depth d incorporates exactly the first d sentences, in narrative
\* order.
C29_DepthCountsSentences ==
    \A node \in EnqueuedNodes :
        /\ node.sentence_depth <= inference_agent.sentences
        /\ node.readings = [i \in 1..node.sentence_depth |-> i - 1]
        /\ is_not_root(node) =>
               \E parent \in EnqueuedNodes :
                   /\ parent.id = node.parent
                   /\ node.sentence_depth = parent.sentence_depth + 1
                   /\ node.readings = Append(parent.readings, parent.sentence_depth)

\* a node of depth two waits in the queue when two sentences were consumed
C29_Witness ==
    /\ inference_agent.sentences = 2
    /\ \E node \in EnqueuedNodes :
           /\ node.sentence_depth = 2
           /\ node.readings = <<0, 1>>
           /\ \E parent \in EnqueuedNodes :
                  parent.id = node.parent /\ is_not_root(parent)


----------------------------------------------------------------------------
(* Properties of a search that is pulled to its end                        *)

\* search has returned, the queue is empty, and every node that was made
\* (the root included) was dequeued exactly once and, unless it is the
\* root, yielded
ReturnedWithEveryNodeDequeued ==
    /\ inference_agent.pc = "returned"
    /\ inference_agent.nodes = <<>>
    /\ Len(inference_agent.dequeued) = inference_agent.created
    /\ {inference_agent.dequeued[i].id : i \in 1..Len(inference_agent.dequeued)}
           = 0..(inference_agent.created - 1)
    /\ inference_agent.yielded = NonRoot(inference_agent.dequeued)

\* C30: given a finite narrative and a model generator that yields finitely
\* many models per call, search eventually terminates when the caller keeps
\* pulling, and by then every node that was ever enqueued has been dequeued
\* exactly once (and yielded, unless it is the root); a call of the model
\* generator that raises ends the search with its exception.
C30_SearchTerminates ==
    <>(ReturnedWithEveryNodeDequeued \/ inference_agent.pc = "raised")

\* search returned True after it dequeued and yielded nodes of both depths
C30_Witness ==
    /\ ReturnedWithEveryNodeDequeued
    /\ inference_agent.result = "True"
    /\ Len(inference_agent.yielded) >= 3
    /\ \E i \in 1..Len(inference_agent.yielded) : inference_agent.yielded[i].sentence_depth = 2

====
